---- MODULE Spec2Model ----
(***************************************************************************)
(* Model of the ai-perp-dex off-chain core.                                *)
(*                                                                         *)
(*  - matching-engine: OrderBook (orderbook.rs), Order (order.rs) and      *)
(*    MatchingEngine (engine.rs), one market.                              *)
(*  - trade-router: the request / quote / accept ledger of AppState        *)
(*    (state.rs) driven by the HTTP handlers (handlers.rs).                *)
(*                                                                         *)
(* Option<T> is modelled as a sequence: <<>> is None, <<x>> is Some(x).    *)
(***************************************************************************)
EXTENDS Integers, Sequences, FiniteSets, TLC

\* ------------------------------------------------------------------------
\* Bounds of the model
\* ------------------------------------------------------------------------
MaxOrders == 3
MaxRequests == 1
MaxQuotes == 1
MaxTime == 2
MaxSettlements == 1
\* the freshness bound of the staleness policy, in ticks of the clock
FreshnessBound == 1
MaxRegistrations == 2
MaxFills == 3
MaxTransfers == 2
MaxWrites == 4
MaxFundingPeriods == 2
\* the RateLimiter the model runs: RateLimiter::new(max_requests,
\* window_duration), the window in ticks of the clock
max_requests == 2
window_duration == 2

\* agent_id of a PlaceOrderRequest
Agents == {"a1"}
\* agent_id of a CancelOrderRequest: the owner, or the "" that the HTTP
\* handler puts there (api.rs:151)
Cancellers == {"a1", ""}
\* price and quantity of a PlaceOrderRequest
Prices == {1, 2}
Quantities == {1, 2}
\* quantities the engine is handed without a check: request.quantity is an
\* f64 and goes to Quantity::from_f64 as it is (engine.rs:84-105)
InvalidQuantities == {-1, 0}
Sides == {"Buy", "Sell"}
TimeInForces == {"GTC", "IOC", "FOK", "PostOnly"}

\* trade-router inputs
Threads == {"t1", "t2"}
Traders == {"trader"}
MarketMakers == {"mm"}
Markets == {"BtcPerp"}
TradeSides == {"Long", "Short"}
ExpiresIn == {1}
ValidFor == {1}
\* funding rates are in basis points (0.0001); every request carries a
\* max_funding_rate of 200, and a CreateQuote a funding_rate of either sign
FundingRates == {-100, 100}
\* a funding_rate above what the request allows
HighFundingRates == {300}
\* what the price feed may fetch for a market, below the 84000 the state
\* starts with: 83580 puts a 10x long opened at 84000 exactly on its
\* maintenance margin and 83160 puts it below; a 10x short opened at 83160
\* is below its margin at 83580
FeedPrices == {83160, 83580}

\* fill_size and fill_price of Position::update_after_fill
FillSizes == {-2, -1, 1, 2}
FillPrices == {1, 3}
\* amount of RiskEngine::deposit and RiskEngine::withdraw, a Decimal
Amounts == {-1, 1, 2}

\* the client IPs the rate limiter sees
ClientIps == {"ip1", "ip2"}

None == <<>>
Some(x) == <<x>>

Min(a, b) == IF a <= b THEN a ELSE b

RECURSIVE SumSeq(_)
SumSeq(s) == IF s = <<>> THEN 0 ELSE Head(s) + SumSeq(Tail(s))

RECURSIVE SortAsc(_)
SortAsc(S) ==
  IF S = {} THEN <<>>
  ELSE LET m == CHOOSE x \in S : \A y \in S : x <= y
       IN <<m>> \o SortAsc(S \ {m})

Reverse(s) == [i \in 1..Len(s) |-> s[Len(s) + 1 - i]]

RemoveKey(f, k) == [x \in (DOMAIN f) \ {k} |-> f[x]]

PutKey(f, k, v) == [x \in (DOMAIN f) \cup {k} |-> IF x = k THEN v ELSE f[x]]

\* ------------------------------------------------------------------------
\* order.rs
\* ------------------------------------------------------------------------
new_limit(id, agent_id, side, price, quantity, time_in_force) ==
  [id |-> id, agent_id |-> agent_id, side |-> side, order_type |-> "Limit",
   price |-> Some(price), quantity |-> quantity,
   remaining_quantity |-> quantity, time_in_force |-> time_in_force,
   status |-> "Open"]

new_market(id, agent_id, side, quantity) ==
  [id |-> id, agent_id |-> agent_id, side |-> side, order_type |-> "Market",
   price |-> None, quantity |-> quantity,
   remaining_quantity |-> quantity, time_in_force |-> "IOC",
   status |-> "Open"]

is_filled(o) == o.remaining_quantity = 0

is_active(o) == o.status \in {"Open", "PartiallyFilled"}

fill(o, qty) ==
  LET r == o.remaining_quantity - qty
  IN [o EXCEPT !.remaining_quantity = r,
               !.status = IF r = 0 THEN "Filled" ELSE "PartiallyFilled"]

cancel(o) == [o EXCEPT !.status = "Cancelled"]

\* ------------------------------------------------------------------------
\* orderbook.rs: Level
\* ------------------------------------------------------------------------
Level_new == [orders |-> <<>>, total_quantity |-> 0]

\* a Level that puts the newcomer at the head of the queue
add_order_lifo(level, o) ==
  [orders |-> <<o>> \o level.orders,
   total_quantity |-> level.total_quantity + o.remaining_quantity]

add_order(level, o) ==
  [orders |-> Append(level.orders, o),
   total_quantity |-> level.total_quantity + o.remaining_quantity]

IndexOf(level, order_id) ==
  CHOOSE i \in 1..Len(level.orders) : level.orders[i].id = order_id

HasOrder(level, order_id) ==
  \E i \in 1..Len(level.orders) : level.orders[i].id = order_id

\* a removal that forgets the aggregate
remove_order_keeps_total(level, order_id) ==
  [orders |-> SelectSeq(level.orders, LAMBDA x : x.id # order_id),
   total_quantity |-> level.total_quantity]

\* shift_remove keeps the relative order of the remaining entries
remove_order(level, order_id) ==
  LET o == level.orders[IndexOf(level, order_id)]
  IN [orders |-> SelectSeq(level.orders, LAMBDA x : x.id # order_id),
      total_quantity |-> level.total_quantity - o.remaining_quantity]

\* ------------------------------------------------------------------------
\* orderbook.rs: OrderBook
\* ------------------------------------------------------------------------
OrderBook_new ==
  [bids |-> << >>, asks |-> << >>, orders |-> << >>,
   sequence |-> 0, trade_counter |-> 0,
   best_bid |-> None, best_ask |-> None]

OppositeLevels(b, side) == IF side = "Buy" THEN b.asks ELSE b.bids

\* a price loop that stops at the taker's own limit price already
PriceBetter(o, price) ==
  IF o.price = None THEN TRUE
  ELSE IF o.side = "Buy" THEN price < o.price[1]
       ELSE price > o.price[1]

\* the early exit of the price loop (orderbook.rs:182-188)
PriceCompatible(o, price) ==
  IF o.price = None THEN TRUE
  ELSE IF o.side = "Buy" THEN ~(price > o.price[1])
       ELSE ~(price < o.price[1])

\* a fill that ignores what the taker has left
fill_qty_maker(taker, maker) == maker.remaining_quantity

\* std::cmp::min(order.remaining_quantity, maker_order.remaining_quantity)
fill_qty(taker, maker) ==
  Min(taker.remaining_quantity, maker.remaining_quantity)

\* one iteration of the maker loop (orderbook.rs:199-231); st threads the
\* opposite side's levels, the id index, the taker, the trades, the trade
\* counter and the makers as they were left by fill()
MatchMaker(st, price, i) ==
  LET level == st.levels[price]
      maker == level.orders[i]
      qty == fill_qty(st.order, maker)
      trade == [id |-> st.trade_counter, price |-> price,
                quantity |-> qty,
                maker_order_id |-> maker.id, taker_order_id |-> st.order.id,
                maker_agent_id |-> maker.agent_id,
                taker_agent_id |-> st.order.agent_id]
      maker2 == fill(maker, qty)
  IN [levels |-> [st.levels EXCEPT ![price] =
                    [orders |-> [level.orders EXCEPT ![i] = maker2],
                     total_quantity |-> level.total_quantity - qty]],
      orders |-> IF is_filled(maker2) THEN RemoveKey(st.orders, maker.id)
                 ELSE st.orders,
      order |-> fill(st.order, qty),
      trades |-> Append(st.trades, trade),
      trade_counter |-> st.trade_counter + 1,
      makers |-> Append(st.makers, maker2)]

RECURSIVE MatchLevel(_, _, _)
MatchLevel(st, price, i) ==
  IF i > Len(st.levels[price].orders) \/ st.order.remaining_quantity = 0
  THEN st
  ELSE MatchLevel(MatchMaker(st, price, i), price, i + 1)

\* level.orders.retain(|_, o| !o.is_filled())
RetainUnfilled(st, price) ==
  [st EXCEPT !.levels[price].orders =
     SelectSeq(st.levels[price].orders, LAMBDA o : ~is_filled(o))]

RECURSIVE MatchPrices(_, _, _)
MatchPrices(st, matching_prices, k) ==
  IF k > Len(matching_prices) \/ st.order.remaining_quantity = 0 THEN st
  ELSE IF ~PriceCompatible(st.order, matching_prices[k]) THEN st
  ELSE MatchPrices(RetainUnfilled(MatchLevel(st, matching_prices[k], 1),
                                  matching_prices[k]),
                   matching_prices, k + 1)

RetainNonEmpty(levels) ==
  [p \in {q \in DOMAIN levels : levels[q].orders # <<>>} |-> levels[p]]

\* a walk that starts at the far end of the opposite side
matching_prices_far(opposite_side, side) ==
  IF side = "Buy" THEN Reverse(SortAsc(DOMAIN opposite_side))
  ELSE SortAsc(DOMAIN opposite_side)

\* keys() of the BTreeMap for a buy, keys().rev() for a sell
matching_prices(opposite_side, side) ==
  IF side = "Buy" THEN SortAsc(DOMAIN opposite_side)
  ELSE Reverse(SortAsc(DOMAIN opposite_side))

\* returns the book after matching, the taker, the trades and the makers hit
match_order(b, o) ==
  LET opposite_side == OppositeLevels(b, o.side)
      st0 == [levels |-> opposite_side, orders |-> b.orders, order |-> o,
              trades |-> <<>>, trade_counter |-> b.trade_counter,
              makers |-> <<>>]
      st == MatchPrices(st0, matching_prices(opposite_side, o.side), 1)
      kept == RetainNonEmpty(st.levels)
  IN [book |-> [b EXCEPT !.asks = IF o.side = "Buy" THEN kept ELSE b.asks,
                         !.bids = IF o.side = "Sell" THEN kept ELSE b.bids,
                         !.orders = st.orders,
                         !.trade_counter = st.trade_counter],
      order |-> st.order, trades |-> st.trades, makers |-> st.makers]

add_order_to_book(b, o) ==
  LET price == o.price[1]
      levels == IF o.side = "Buy" THEN b.bids ELSE b.asks
      level == IF price \in DOMAIN levels THEN levels[price] ELSE Level_new
      levels2 == PutKey(levels, price, add_order(level, o))
  IN [b EXCEPT !.bids = IF o.side = "Buy" THEN levels2 ELSE b.bids,
               !.asks = IF o.side = "Sell" THEN levels2 ELSE b.asks,
               !.orders = PutKey(b.orders, o.id, <<price, o.side>>)]

MaxOf(S) == CHOOSE x \in S : \A y \in S : y <= x
MinOf(S) == CHOOSE x \in S : \A y \in S : x <= y

update_best_prices(b) ==
  [b EXCEPT !.best_bid = IF DOMAIN b.bids = {} THEN None
                         ELSE Some(MaxOf(DOMAIN b.bids)),
            !.best_ask = IF DOMAIN b.asks = {} THEN None
                         ELSE Some(MinOf(DOMAIN b.asks))]

\* a sequence counter that is never advanced
fetch_add_nothing(sequence) == sequence

\* self.sequence.fetch_add(1, Ordering::SeqCst)
fetch_add(sequence) == sequence + 1

\* a PostOnly arm that rests the residual whatever was matched
residual_postonly_rests(o, trades) ==
  IF ~(is_active(o) /\ o.remaining_quantity # 0) THEN "done"
  ELSE IF o.time_in_force \in {"IOC", "FOK"} THEN "cancel"
  ELSE "insert"

\* an IOC arm that rests the residual like GTC
residual_ioc_rests(o, trades) ==
  IF ~(is_active(o) /\ o.remaining_quantity # 0) THEN "done"
  ELSE IF o.time_in_force = "FOK" THEN "cancel"
  ELSE IF o.time_in_force = "PostOnly" /\ trades # <<>> THEN "reject"
  ELSE "insert"

\* what place_order does with the taker after matching (orderbook.rs:129-151)
residual(o, trades) ==
  IF ~(is_active(o) /\ o.remaining_quantity # 0) THEN "done"
  ELSE IF o.time_in_force \in {"IOC", "FOK"} THEN "cancel"
  ELSE IF o.time_in_force = "PostOnly" /\ trades # <<>> THEN "reject"
  ELSE "insert"

\* OrderBook::place_order; `order` is the taker as the book leaves it and
\* `matched` the trades of match_order before the time-in-force handling
book_place_order(b, o) ==
  LET m == match_order(b, o)
      what == residual(m.order, m.trades)
      reject == what = "reject"
      kill == what \in {"cancel", "reject"}
      insert == what = "insert"
      b2 == IF insert THEN add_order_to_book(m.book, m.order) ELSE m.book
      b3 == update_best_prices(b2)
  IN [book |-> [b3 EXCEPT !.sequence = fetch_add(b.sequence)],
      order |-> IF kill THEN cancel(m.order) ELSE m.order,
      trades |-> IF reject THEN <<>> ELSE m.trades,
      matched |-> m.trades,
      makers |-> m.makers]

\* OrderBook::cancel_order; `order` is None when nothing was cancelled
book_cancel_order(b, order_id) ==
  IF order_id \notin DOMAIN b.orders THEN [book |-> b, order |-> None]
  ELSE
    LET price == b.orders[order_id][1]
        side == b.orders[order_id][2]
        b1 == [b EXCEPT !.orders = RemoveKey(b.orders, order_id)]
        levels == IF side = "Buy" THEN b.bids ELSE b.asks
    IN IF price \notin DOMAIN levels \/ ~HasOrder(levels[price], order_id)
       THEN [book |-> b1, order |-> None]
       ELSE
         LET level == levels[price]
             o == cancel(level.orders[IndexOf(level, order_id)])
             level2 == remove_order(level, order_id)
             levels2 == IF level2.orders = <<>> THEN RemoveKey(levels, price)
                        ELSE [levels EXCEPT ![price] = level2]
             b2 == [b1 EXCEPT
                      !.bids = IF side = "Buy" THEN levels2 ELSE b.bids,
                      !.asks = IF side = "Sell" THEN levels2 ELSE b.asks]
             b3 == update_best_prices(b2)
         IN [book |-> [b3 EXCEPT !.sequence = fetch_add(b.sequence)],
             order |-> Some(o)]

\* ------------------------------------------------------------------------
\* State
\* ------------------------------------------------------------------------
VARIABLES
  book,            \* matching-engine: the OrderBook of the market
  order_counter,   \* MatchingEngine.order_counter
  last,            \* the last engine call: its request and what it produced
  now,             \* trade-router: chrono::Utc::now()
  requests,        \* AppState.requests: request id -> TradeRequest
  quotes,          \* AppState.quotes: request id -> Vec<Quote>
  positions,       \* AppState.positions: position id -> Position
  agent_positions, \* AppState.agent_positions: agent -> Vec<position id>
  prices,          \* AppState.prices: market -> price
  db_positions,    \* the positions table of the Database
  events,          \* what was sent on AppState.broadcast_tx, in order
  uuids,           \* ids handed out by Uuid::new_v4: requests, quotes, positions
  acc,             \* the accept_quote call each thread is in, with its locals
  price_time,      \* when the price feed last refreshed each market's price
  liq,             \* the liquidation loop: where it is, with its locals
  funding_payments,\* the funding_payments table of the Database, in order
  settlements,     \* how many times the funding engine has run settle_funding
  last_close,      \* the last close_position call and what it returned
  sub,             \* the create_quote call in flight, with its locals
  mm,              \* the demo market maker: where its loop is, with its locals
  entries,         \* RateLimiter.entries: ip -> RateLimitEntry
  served,          \* per ip and instant, how many requests check() has allowed
  last_check,      \* the last RateLimiter::check call and what it returned
  agents,          \* AppState.agents: agent id -> AgentInfo
  api_keys,        \* AppState.api_keys: api key -> agent id
  db_agents,       \* the agents table of the Database: id -> row
  key_counter,     \* how many api keys register_agent has generated
  http,            \* the request the auth middleware let through last
  risk,            \* matching-engine RiskEngine: one agent's position and balance
  last_risk,       \* the last RiskEngine call and what it returned
  store,           \* the tables of a Database that a write log is applied to
  writes,          \* the writes applied to store, with their results
  breaker,         \* api-server: the CircuitBreaker of one agent
  order_check,     \* the last check_order_risk call and what it returned
  listed,          \* what the last get_active_requests or get_quotes returned
  escrow,          \* escrow-program: one position account, with the clock
  escrow_out       \* the last escrow instruction and what it paid out

bookVars == <<book, order_counter, last>>

liqVars == <<price_time, liq, funding_payments, settlements, last_close>>

limiterVars == <<entries, served, last_check>>

\* the state behind the HTTP middleware and the stores
riskVars == <<risk, last_risk>>

storeVars == <<store, writes>>

breakerVars == <<breaker, order_check>>

\* the state of the api-server
escrowVars == <<escrow, escrow_out>>

progVars == <<breakerVars, listed, escrowVars>>

apiVars == <<limiterVars, db_agents, key_counter, riskVars, storeVars,
             progVars>>

\* what auth_middleware reads and writes
authVars == <<agents, api_keys, http>>

svcVars == <<sub, mm, apiVars, authVars>>

routerVars == <<now, requests, quotes, positions, agent_positions, prices,
                db_positions, events, uuids, acc, liqVars, svcVars>>

vars == <<book, order_counter, last, now, requests, quotes, positions,
          agent_positions, prices, db_positions, events, uuids, acc,
          price_time, liq, funding_payments, settlements, last_close,
          sub, mm, entries, served, last_check, agents, api_keys,
          db_agents, key_counter, http, risk, last_risk, store, writes,
          breaker, order_check, listed, escrow, escrow_out>>

\* everything but the state behind the HTTP middleware and the stores
coreVars == <<bookVars, now, requests, quotes, positions, agent_positions,
              prices, db_positions, events, uuids, acc, liqVars, sub, mm>>

NoCall ==
  [op |-> "none", agent_id |-> "", order_id |-> 0, result |-> "",
   order |-> None, returned |-> None, trades |-> <<>>, matched |-> <<>>,
   makers |-> <<>>]

InitBook ==
  /\ book = OrderBook_new
  /\ order_counter = 1
  /\ last = NoCall

\* MatchingEngine::place_order (engine.rs:73-119) for the one market; the
\* engine returns the order as it was built, before the book matched it
PlaceWith(o) ==
  LET r == book_place_order(book, o)
  IN /\ book' = r.book
     /\ order_counter' = order_counter + 1
     /\ last' = [op |-> "place", agent_id |-> o.agent_id, order_id |-> o.id,
                 result |-> "ok", order |-> Some(r.order),
                 returned |-> Some(o), trades |-> r.trades,
                 matched |-> r.matched, makers |-> r.makers]
     /\ UNCHANGED routerVars

PlaceLimit ==
  /\ order_counter <= MaxOrders
  /\ \E a \in Agents, s \in Sides, p \in Prices, q \in Quantities,
        tif \in TimeInForces :
       PlaceWith(new_limit(order_counter, a, s, p, q, tif))

PlaceMarket ==
  /\ order_counter <= MaxOrders
  /\ \E a \in Agents, s \in Sides, q \in Quantities :
       PlaceWith(new_market(order_counter, a, s, q))

\* MatchingEngine::cancel_order (engine.rs:122-140): the book cancels first,
\* the ownership test comes after
CancelOrder ==
  /\ order_counter <= MaxOrders
  /\ \E a \in Cancellers, id \in (DOMAIN book.orders) \cup {order_counter} :
      LET r == book_cancel_order(book, id)
          result == IF r.order = None THEN "OrderNotFound"
                    ELSE IF r.order[1].agent_id # a THEN "NotOrderOwner"
                    ELSE "ok"
      IN /\ book' = r.book
         /\ last' = [op |-> "cancel", agent_id |-> a, order_id |-> id,
                     result |-> result, order |-> r.order,
                     returned |-> IF result = "ok" THEN r.order ELSE None,
                     trades |-> <<>>, matched |-> <<>>, makers |-> <<>>]
         /\ UNCHANGED order_counter
         /\ UNCHANGED routerVars

\* MatchingEngine::place_order with a GTC limit order whose quantity is
\* zero or negative: nothing between the request and the book looks at
\* the quantity
PlaceInvalid ==
  /\ order_counter <= MaxOrders
  /\ \E a \in Agents, s \in Sides, p \in Prices, q \in InvalidQuantities :
       PlaceWith(new_limit(order_counter, a, s, p, q, "GTC"))

\* ------------------------------------------------------------------------
\* trade-router: state.rs, handlers.rs
\* The created_at stamps of TradeRequest, Quote and Position are left out:
\* no operation reads them.
\* ------------------------------------------------------------------------
\* the liquidation loop between two ticks
NoLiquidation ==
  [pc |-> "idle", queue |-> <<>>, position |-> None, current_price |-> 0,
   price_age |-> 0]

NoClose == [position_id |-> 0, result |-> ""]

\* api_key is the X-API-Key header, agent the AgentInfo put in the request
\* extensions
NoHttp == [api_key |-> None, agent |-> None]

NoCheck == [ip |-> "", allowed |-> FALSE, remaining |-> 0, reset_secs |-> 0]

NoSubmit ==
  [pc |-> "idle", request_id |-> 0, funding_rate |-> 0, valid_for |-> 0,
   quote |-> None, result |-> ""]

NoDemoMm == [pc |-> "idle", request_id |-> 0, request |-> None, quote |-> None]

NoAccept ==
  [pc |-> "idle", request_id |-> 0, quote_id |-> 0, started |-> 0,
   request |-> None, quote |-> None, position |-> None, result |-> ""]

InitRouter ==
  /\ now = 0
  /\ requests = << >>
  /\ quotes = << >>
  /\ positions = << >>
  /\ agent_positions = << >>
  /\ prices = [m \in Markets |-> 84000]
  /\ db_positions = << >>
  /\ events = <<>>
  /\ uuids = [request |-> 0, quote |-> 0, position |-> 0]
  /\ acc = [t \in Threads |-> NoAccept]
  /\ price_time = [m \in Markets |-> 0]
  /\ liq = NoLiquidation
  /\ funding_payments = <<>>
  /\ settlements = 0
  /\ last_close = NoClose
  /\ sub = NoSubmit
  /\ mm = NoDemoMm
  /\ entries = << >>
  /\ served = [ip \in ClientIps |-> [t \in 0..MaxTime |-> 0]]
  /\ last_check = NoCheck
  /\ agents = << >>
  /\ api_keys = << >>
  /\ db_agents = << >>
  /\ key_counter = 0
  /\ http = NoHttp

\* the clock advances
Tick ==
  /\ now < MaxTime
  /\ now' = now + 1
  /\ UNCHANGED <<requests, quotes, positions, agent_positions, prices,
                 db_positions, events, uuids, acc>>
  /\ UNCHANGED <<bookVars, liqVars, svcVars>>

\* handlers::create_trade_request with AppState::add_request
HandleCreateTradeRequest ==
  /\ uuids.request < MaxRequests
  /\ \E a \in Traders, m \in Markets, sd \in TradeSides, e \in ExpiresIn :
       LET id == uuids.request + 1
           req == [id |-> id, agent_id |-> a, market |-> m, side |-> sd,
                   size_usdc |-> 1000, leverage |-> 10,
                   max_funding_rate |-> 200,
                   expires_at |-> now + e]
       IN /\ requests' = PutKey(requests, id, req)
          /\ quotes' = PutKey(quotes, id, <<>>)
          /\ events' = Append(events, [type |-> "trade_request", id |-> id])
          /\ uuids' = [uuids EXCEPT !.request = id]
  /\ UNCHANGED <<now, positions, agent_positions, prices, db_positions, acc>>
  /\ UNCHANGED <<bookVars, liqVars, sub, mm, apiVars>>

\* the handler alone, whatever the middleware did with the request
CreateTradeRequest == HandleCreateTradeRequest /\ UNCHANGED authVars

\* handlers::create_quote with AppState::add_quote
CreateQuote ==
  /\ uuids.quote < MaxQuotes
  /\ \E rid \in 1..MaxRequests, a \in MarketMakers, v \in ValidFor,
        fr \in FundingRates :
       /\ rid \in DOMAIN requests
       /\ rid \in DOMAIN quotes
       /\ LET id == uuids.quote + 1
              q == [id |-> id, request_id |-> rid, agent_id |-> a,
                    funding_rate |-> fr, collateral_usdc |-> 100,
                    valid_until |-> now + v]
          IN /\ quotes' = [quotes EXCEPT ![rid] = Append(@, q)]
             /\ uuids' = [uuids EXCEPT !.quote = id]
  /\ UNCHANGED <<now, requests, positions, agent_positions, prices,
                 db_positions, events, acc>>
  /\ UNCHANGED <<bookVars, liqVars, svcVars>>

\* the same call as the accesses it makes, one step each, for the
\* interleavings with accept_quote and the demo market maker
QuoteUnchanged ==
  UNCHANGED <<now, requests, positions, agent_positions, prices,
              db_positions, events, acc, mm>>

SubmitReturn(msg) == sub' = [sub EXCEPT !.pc = "done", !.result = msg]

\* POST /trade/quote arrives
SubmitStart ==
  /\ sub.pc \in {"idle", "done"}
  /\ uuids.quote < MaxQuotes
  /\ \E rid \in 1..MaxRequests, v \in ValidFor,
        fr \in FundingRates \cup HighFundingRates :
       sub' = [NoSubmit EXCEPT !.pc = "check", !.request_id = rid,
                               !.funding_rate = fr, !.valid_for = v]
  /\ UNCHANGED <<quotes, uuids>>
  /\ QuoteUnchanged
  /\ UNCHANGED <<bookVars, liqVars, apiVars, authVars>>

\* handlers::create_quote: state.requests.contains_key(..), then the Quote
\* is built
SubmitCheck ==
  /\ sub.pc = "check"
  /\ IF sub.request_id \in DOMAIN requests
     THEN LET id == uuids.quote + 1
              q == [id |-> id, request_id |-> sub.request_id,
                    agent_id |-> CHOOSE a \in MarketMakers : TRUE,
                    funding_rate |-> sub.funding_rate,
                    collateral_usdc |-> 100,
                    valid_until |-> now + sub.valid_for]
          IN /\ sub' = [sub EXCEPT !.pc = "add_quote", !.quote = Some(q)]
             /\ uuids' = [uuids EXCEPT !.quote = id]
     ELSE /\ SubmitReturn("Trade request not found")
          /\ UNCHANGED uuids
  /\ UNCHANGED quotes
  /\ QuoteUnchanged
  /\ UNCHANGED <<bookVars, liqVars, apiVars, authVars>>

\* AppState::add_quote: self.requests.contains_key(&request_id)
SubmitAddQuote ==
  /\ sub.pc = "add_quote"
  /\ IF sub.request_id \in DOMAIN requests
     THEN sub' = [sub EXCEPT !.pc = "push"]
     ELSE SubmitReturn("Trade request not found")
  /\ UNCHANGED <<quotes, uuids>>
  /\ QuoteUnchanged
  /\ UNCHANGED <<bookVars, liqVars, apiVars, authVars>>

\* AppState::add_quote: self.quotes.get_mut(&request_id), quotes.push(quote)
SubmitPush ==
  /\ sub.pc = "push"
  /\ IF sub.request_id \in DOMAIN quotes
     THEN /\ quotes' = [quotes EXCEPT ![sub.request_id] =
                                        Append(@, sub.quote[1])]
          /\ SubmitReturn("ok")
     ELSE /\ SubmitReturn("Quote storage not found")
          /\ UNCHANGED quotes
  /\ UNCHANGED uuids
  /\ QuoteUnchanged
  /\ UNCHANGED <<bookVars, liqVars, apiVars, authVars>>

\* ------------------------------------------------------------------------
\* demo_mm.rs, with DemoMmConfig::default()
\* ------------------------------------------------------------------------
demo_agent_id == "demo_mm_bot"

max_quote_size == 10000

quote_valid_secs == 300

\* base_funding_rate * (1.0 + (leverage - 1.0) * 0.05) with the base of
\* 0.008, in basis points: 80 * (20 + leverage - 1) / 20
demo_funding_rate(request) == 4 * (19 + request.leverage)

\* size_usdc * collateral_ratio / leverage with the ratio of 0.15
demo_collateral(request) == (request.size_usdc * 15) \div (100 * request.leverage)

\* an iteration that lets go of the entry as soon as it has read it
holds_ref_never(m, request_id) == FALSE

\* the entry that state.requests.iter() has yielded keeps the read lock of
\* its shard for the whole body of the loop
holds_ref(m, request_id) == m.pc # "idle" /\ m.request_id = request_id

DemoUnchanged ==
  UNCHANGED <<now, requests, positions, agent_positions, prices,
              db_positions, events, acc, sub>>

\* for entry in state.requests.iter(): the loop comes to a request
DemoVisit ==
  /\ mm.pc = "idle"
  /\ \E rid \in DOMAIN requests :
       mm' = [NoDemoMm EXCEPT !.pc = "check", !.request_id = rid,
                              !.request = Some(requests[rid])]
  /\ UNCHANGED <<quotes, uuids>>
  /\ DemoUnchanged
  /\ UNCHANGED <<bookVars, liqVars, apiVars, authVars>>

\* has_demo_quote, the size and the funding rate are checked, and the
\* Quote is built; any `continue` ends the visit
DemoCheck ==
  /\ mm.pc = "check"
  /\ LET request == mm.request[1]
         has_demo_quote ==
           /\ mm.request_id \in DOMAIN quotes
           /\ \E i \in 1..Len(quotes[mm.request_id]) :
                quotes[mm.request_id][i].agent_id = demo_agent_id
         funding_rate == demo_funding_rate(request)
         id == uuids.quote + 1
         q == [id |-> id, request_id |-> mm.request_id,
               agent_id |-> demo_agent_id, funding_rate |-> funding_rate,
               collateral_usdc |-> demo_collateral(request),
               valid_until |-> now + quote_valid_secs]
     IN IF \/ has_demo_quote
           \/ request.size_usdc > max_quote_size
           \/ funding_rate > request.max_funding_rate
        THEN mm' = NoDemoMm /\ UNCHANGED uuids
        ELSE /\ mm' = [mm EXCEPT !.pc = "push", !.quote = Some(q)]
             /\ uuids' = [uuids EXCEPT !.quote = id]
  /\ UNCHANGED quotes
  /\ DemoUnchanged
  /\ UNCHANGED <<bookVars, liqVars, apiVars, authVars>>

\* state.quotes.entry(request_id).or_insert_with(Vec::new).push(quote)
DemoPush ==
  /\ mm.pc = "push"
  /\ quotes' = PutKey(quotes, mm.request_id,
                      Append(IF mm.request_id \in DOMAIN quotes
                             THEN quotes[mm.request_id] ELSE <<>>,
                             mm.quote[1]))
  /\ mm' = NoDemoMm
  /\ UNCHANGED uuids
  /\ DemoUnchanged
  /\ UNCHANGED <<bookVars, liqVars, apiVars, authVars>>

AccUnchanged ==
  UNCHANGED <<now, requests, quotes, positions, agent_positions, prices,
              db_positions, events, uuids>>

Fail(t, msg) == acc' = [acc EXCEPT ![t].pc = "done", ![t].result = msg]

\* handlers::accept_quote calls AppState::accept_quote (state.rs:145-210);
\* each step below is one access to a shared map, the database or the
\* channel; every thread of Threads makes one call
AcceptStart(t) ==
  /\ acc[t].pc = "idle"
  /\ \E rid \in 1..MaxRequests, qid \in 1..MaxQuotes :
       acc' = [acc EXCEPT ![t] = [NoAccept EXCEPT !.pc = "get_request",
                                                 !.request_id = rid,
                                                 !.quote_id = qid,
                                                 !.started = now]]
  /\ AccUnchanged
  /\ UNCHANGED <<bookVars, liqVars, svcVars>>

\* self.requests.get(&request_id).ok_or(..)?.clone()
AcceptGetRequest(t) ==
  /\ acc[t].pc = "get_request"
  /\ IF acc[t].request_id \in DOMAIN requests
     THEN acc' = [acc EXCEPT ![t].pc = "get_quote",
                             ![t].request = Some(requests[acc[t].request_id])]
     ELSE Fail(t, "Trade request not found")
  /\ AccUnchanged
  /\ UNCHANGED <<bookVars, liqVars, svcVars>>

\* self.quotes.get(&request_id).ok_or(..)?.iter().find(..).cloned().ok_or(..)?
AcceptGetQuote(t) ==
  /\ acc[t].pc = "get_quote"
  /\ LET rid == acc[t].request_id
     IN IF rid \notin DOMAIN quotes THEN Fail(t, "Quotes not found")
        ELSE LET found == SelectSeq(quotes[rid],
                                    LAMBDA q : q.id = acc[t].quote_id)
             IN IF found = <<>> THEN Fail(t, "Quote not found")
                ELSE acc' = [acc EXCEPT ![t].pc = "get_price",
                                        ![t].quote = Some(found[1])]
  /\ AccUnchanged
  /\ UNCHANGED <<bookVars, liqVars, svcVars>>

\* self.prices.get(&request.market), then the Position is built
AcceptGetPrice(t) ==
  /\ acc[t].pc = "get_price"
  /\ LET request == acc[t].request[1]
         quote == acc[t].quote[1]
         entry_price == IF request.market \in DOMAIN prices
                        THEN prices[request.market] ELSE 0
         id == uuids.position + 1
         position ==
           [id |-> id, request_id |-> acc[t].request_id,
            quote_id |-> acc[t].quote_id,
            trader_agent |-> request.agent_id, mm_agent |-> quote.agent_id,
            market |-> request.market, side |-> request.side,
            size_usdc |-> request.size_usdc, leverage |-> request.leverage,
            entry_price |-> entry_price, funding_rate |-> quote.funding_rate,
            trader_collateral |-> request.size_usdc \div request.leverage,
            mm_collateral |-> quote.collateral_usdc,
            status |-> "Active", closed_at |-> None]
     IN /\ acc' = [acc EXCEPT ![t].pc = "insert",
                              ![t].position = Some(position)]
        /\ uuids' = [uuids EXCEPT !.position = id]
  /\ UNCHANGED <<now, requests, quotes, positions, agent_positions, prices,
                 db_positions, events>>
  /\ UNCHANGED <<bookVars, liqVars, svcVars>>

\* self.positions.insert(pos_id, position.clone())
AcceptInsert(t) ==
  /\ acc[t].pc = "insert"
  /\ positions' = PutKey(positions, acc[t].position[1].id, acc[t].position[1])
  /\ acc' = [acc EXCEPT ![t].pc = "save"]
  /\ UNCHANGED <<now, requests, quotes, agent_positions, prices,
                 db_positions, events, uuids>>
  /\ UNCHANGED <<bookVars, liqVars, svcVars>>

\* Database::save_position: INSERT OR REPLACE of a row whose column list
\* has no pnl_trader and no pnl_mm, so both are NULL in the new row
save_position(db, pos) ==
  PutKey(db, pos.id,
         [status |-> pos.status, closed_at |-> pos.closed_at,
          pnl_trader |-> None, pnl_mm |-> None])

\* self.db.save_position(&position)
AcceptSave(t) ==
  /\ acc[t].pc = "save"
  /\ db_positions' = save_position(db_positions, acc[t].position[1])
  /\ acc' = [acc EXCEPT ![t].pc = "index"]
  /\ UNCHANGED <<now, requests, quotes, positions, agent_positions, prices,
                 events, uuids>>
  /\ UNCHANGED <<bookVars, liqVars, svcVars>>

PushTo(idx, agent, id) ==
  PutKey(idx, agent,
         Append(IF agent \in DOMAIN idx THEN idx[agent] ELSE <<>>, id))

\* the two self.agent_positions.entry(..).or_insert(..).push(pos_id)
AcceptIndex(t) ==
  /\ acc[t].pc = "index"
  /\ LET p == acc[t].position[1]
     IN agent_positions' =
          PushTo(PushTo(agent_positions, p.trader_agent, p.id),
                 p.mm_agent, p.id)
  /\ acc' = [acc EXCEPT ![t].pc = "remove_request"]
  /\ UNCHANGED <<now, requests, quotes, positions, prices, db_positions,
                 events, uuids>>
  /\ UNCHANGED <<bookVars, liqVars, svcVars>>

\* self.requests.remove(&request_id); it takes the write lock of the shard
\* and so waits for an iteration that is on this request
AcceptRemoveRequest(t) ==
  /\ acc[t].pc = "remove_request"
  /\ ~holds_ref(mm, acc[t].request_id)
  /\ requests' = RemoveKey(requests, acc[t].request_id)
  /\ acc' = [acc EXCEPT ![t].pc = "remove_quotes"]
  /\ UNCHANGED <<now, quotes, positions, agent_positions, prices,
                 db_positions, events, uuids>>
  /\ UNCHANGED <<bookVars, liqVars, svcVars>>

\* self.quotes.remove(&request_id)
AcceptRemoveQuotes(t) ==
  /\ acc[t].pc = "remove_quotes"
  /\ quotes' = RemoveKey(quotes, acc[t].request_id)
  /\ acc' = [acc EXCEPT ![t].pc = "broadcast"]
  /\ UNCHANGED <<now, requests, positions, agent_positions, prices,
                 db_positions, events, uuids>>
  /\ UNCHANGED <<bookVars, liqVars, svcVars>>

\* the two broadcast_tx.send(..), then Ok(position)
AcceptBroadcast(t) ==
  /\ acc[t].pc = "broadcast"
  /\ LET p == acc[t].position[1]
     IN events' = events \o
          << [type |-> "quote_accepted", id |-> p.id],
             [type |-> "position_opened", id |-> p.id] >>
  /\ acc' = [acc EXCEPT ![t].pc = "done", ![t].result = "ok"]
  /\ UNCHANGED <<now, requests, quotes, positions, agent_positions, prices,
                 db_positions, uuids>>
  /\ UNCHANGED <<bookVars, liqVars, svcVars>>

Accept(t) ==
  \/ AcceptStart(t)
  \/ AcceptGetRequest(t)
  \/ AcceptGetQuote(t)
  \/ AcceptGetPrice(t)
  \/ AcceptInsert(t)
  \/ AcceptSave(t)
  \/ AcceptIndex(t)
  \/ AcceptRemoveRequest(t)
  \/ AcceptRemoveQuotes(t)
  \/ AcceptBroadcast(t)

\* ------------------------------------------------------------------------
\* Amounts.  The code computes PnL, equity and payments in f64; the model
\* keeps them as exact fractions num/den with den > 0.
\* ------------------------------------------------------------------------
Rat(n, d) == [num |-> n, den |-> d]

RatNeg(a) == Rat(0 - a.num, a.den)

RatAdd(a, b) == Rat(a.num * b.den + b.num * a.den, a.den * b.den)

RatMul(a, b) == Rat(a.num * b.num, a.den * b.den)

RatLess(a, b) == a.num * b.den < b.num * a.den

RatLessEq(a, b) == a.num * b.den <= b.num * a.den

\* ------------------------------------------------------------------------
\* matching-engine risk.rs, for one agent and one market.  Decimal values
\* are exact fractions.
\* ------------------------------------------------------------------------
Abs(x) == IF x < 0 THEN 0 - x ELSE x

\* Decimal::signum
signum(x) == IF x > 0 THEN 1 ELSE IF x < 0 THEN 0 - 1 ELSE 0

\* Position::new
Position_new == [size |-> 0, entry_price |-> Rat(0, 1), margin |-> Rat(0, 1)]

\* Position::update_after_fill
update_after_fill(position, fill_size, fill_price) ==
  LET old_size == position.size
      new_size == old_size + fill_size
  IN IF new_size = 0
     THEN [position EXCEPT !.size = 0, !.entry_price = Rat(0, 1)]
     ELSE IF signum(old_size) = signum(new_size) \/ old_size = 0
     THEN LET old_notional == RatMul(Rat(Abs(old_size), 1),
                                     position.entry_price)
              fill_notional == Rat(Abs(fill_size) * fill_price, 1)
          IN [position EXCEPT
                !.size = new_size,
                !.entry_price = RatMul(RatAdd(old_notional, fill_notional),
                                       Rat(1, Abs(new_size)))]
     ELSE [position EXCEPT
             !.size = new_size,
             !.entry_price = IF signum(new_size) # signum(old_size)
                             THEN Rat(fill_price, 1) ELSE @]

\* RiskEngine::new, with the position get_position would create
RiskEngine_new == [position |-> Position_new, balance |-> 0, fills |-> 0,
                   transfers |-> 0]

NoRiskCall == [op |-> "none", amount |-> 0, price |-> 0, result |-> ""]

InitRisk ==
  /\ risk = RiskEngine_new
  /\ last_risk = NoRiskCall

\* RiskEngine::get_position(..).update_after_fill(fill_size, fill_price)
ApplyFill ==
  /\ risk.fills < MaxFills
  /\ \E fill_size \in FillSizes, fill_price \in FillPrices :
       /\ risk' = [risk EXCEPT
                     !.position = update_after_fill(risk.position, fill_size,
                                                    fill_price),
                     !.fills = risk.fills + 1]
       /\ last_risk' = [op |-> "fill", amount |-> fill_size,
                        price |-> fill_price, result |-> "ok"]
  /\ UNCHANGED <<coreVars, limiterVars, db_agents, key_counter, authVars,
                 storeVars, progVars>>

\* RiskEngine::deposit
Deposit ==
  /\ risk.transfers < MaxTransfers
  /\ \E amount \in Amounts :
       /\ risk' = [risk EXCEPT !.balance = risk.balance + amount,
                               !.transfers = risk.transfers + 1]
       /\ last_risk' = [op |-> "deposit", amount |-> amount, price |-> 0,
                        result |-> "ok"]
  /\ UNCHANGED <<coreVars, limiterVars, db_agents, key_counter, authVars,
                 storeVars, progVars>>

\* RiskEngine::withdraw
Withdraw ==
  /\ risk.transfers < MaxTransfers
  /\ \E amount \in Amounts :
       LET balance == risk.balance
       IN IF balance < amount
          THEN /\ risk' = [risk EXCEPT !.transfers = risk.transfers + 1]
               /\ last_risk' = [op |-> "withdraw", amount |-> amount,
                                price |-> 0, result |-> "InsufficientMargin"]
          ELSE /\ risk' = [risk EXCEPT !.balance = balance - amount,
                                       !.transfers = risk.transfers + 1]
               /\ last_risk' = [op |-> "withdraw", amount |-> amount,
                                price |-> 0, result |-> "ok"]
  /\ UNCHANGED <<coreVars, limiterVars, db_agents, key_counter, authVars,
                 storeVars, progVars>>

\* ------------------------------------------------------------------------
\* margin.rs
\* ------------------------------------------------------------------------
\* MarginConfig::default().maintenance_ratio = 0.5
maintenance_ratio == Rat(1, 2)

maintenance_margin(initial) == RatMul(Rat(initial, 1), maintenance_ratio)

unrealized_pnl(position, current_price) ==
  LET price_change == Rat(current_price - position.entry_price,
                          position.entry_price)
      leveraged_change == RatMul(price_change, Rat(position.leverage, 1))
  IN IF position.side = "Long"
     THEN RatMul(Rat(position.size_usdc, 1), leveraged_change)
     ELSE RatMul(Rat(position.size_usdc, 1), RatNeg(leveraged_change))

equity(position, current_price) ==
  RatAdd(Rat(position.trader_collateral, 1),
         unrealized_pnl(position, current_price))

\* a threshold that also takes the position standing exactly on its margin
should_liquidate_on_margin(position, current_price) ==
  RatLessEq(equity(position, current_price),
            maintenance_margin(position.trader_collateral))

should_liquidate(position, current_price) ==
  RatLess(equity(position, current_price),
          maintenance_margin(position.trader_collateral))

RECURSIVE GCD(_, _)
GCD(a, b) == IF b = 0 THEN a ELSE GCD(b, a % b)

\* the same fraction in lowest terms, the denominator positive
RatNorm(a) ==
  LET n == IF a.den < 0 THEN 0 - a.num ELSE a.num
      d == IF a.den < 0 THEN 0 - a.den ELSE a.den
      g == GCD(IF n < 0 THEN 0 - n ELSE n, d)
  IN Rat(n \div g, d \div g)

\* margin::liquidation_price
liquidation_price(position) ==
  LET maint_margin == maintenance_margin(position.trader_collateral)
      pnl_at_liq == RatNorm(RatAdd(maint_margin,
                                   RatNeg(Rat(position.trader_collateral, 1))))
      factor == RatNorm(RatMul(pnl_at_liq,
                               Rat(position.entry_price,
                                   position.size_usdc * position.leverage)))
  IN IF position.side = "Long"
     THEN RatNorm(RatMul(Rat(position.entry_price, 1),
                         RatNorm(RatAdd(Rat(1, 1), factor))))
     ELSE RatNorm(RatMul(Rat(position.entry_price, 1),
                         RatNorm(RatAdd(Rat(1, 1), RatNeg(factor)))))

\* ------------------------------------------------------------------------
\* price_feed.rs
\* ------------------------------------------------------------------------
\* start_price_feed, one fetch that succeeded; a failed fetch only logs a
\* warning and leaves prices as they are
PriceFeed ==
  /\ \E m \in Markets, p \in FeedPrices :
       /\ prices' = PutKey(prices, m, p)
       /\ price_time' = [price_time EXCEPT ![m] = now]
  /\ UNCHANGED <<now, requests, quotes, positions, agent_positions,
                 db_positions, events, uuids, acc, liq, funding_payments,
                 settlements, last_close>>
  /\ UNCHANGED <<bookVars, svcVars>>

\* ------------------------------------------------------------------------
\* db.rs: Database::close_position, an UPDATE of the row with that id
\* ------------------------------------------------------------------------
db_close_position(db, position_id, at, pnl_trader, pnl_mm) ==
  IF position_id \in DOMAIN db
  THEN [db EXCEPT ![position_id] =
          [status |-> "Closed", closed_at |-> Some(at),
           pnl_trader |-> Some(pnl_trader), pnl_mm |-> Some(pnl_mm)]]
  ELSE db

\* ------------------------------------------------------------------------
\* state.rs: AppState::close_position
\* ------------------------------------------------------------------------
\* a close that does not look at the status
can_close_any(position) == TRUE

\* position.status != PositionStatus::Active is an error
can_close(position) == position.status = "Active"

\* a close that pays every trader as if they were long
close_pnl_as_long(position, current_price) ==
  LET price_change == Rat(current_price - position.entry_price,
                          position.entry_price)
      leveraged_change == RatMul(price_change, Rat(position.leverage, 1))
      trader_pnl == RatMul(Rat(position.size_usdc, 1), leveraged_change)
  IN [trader |-> trader_pnl, mm |-> RatNeg(trader_pnl)]

\* (pnl_trader, pnl_mm) of close_position
close_pnl(position, current_price) ==
  LET price_change == Rat(current_price - position.entry_price,
                          position.entry_price)
      leveraged_change == RatMul(price_change, Rat(position.leverage, 1))
      trader_pnl == IF position.side = "Long"
                    THEN RatMul(Rat(position.size_usdc, 1), leveraged_change)
                    ELSE RatMul(Rat(position.size_usdc, 1),
                                RatNeg(leveraged_change))
  IN [trader |-> trader_pnl, mm |-> RatNeg(trader_pnl)]

\* the whole call holds the get_mut guard of the position, so it is one step
ClosePosition ==
  /\ \E pid \in (DOMAIN positions) \cup {uuids.position + 1} :
       LET returns(r) == last_close' = [position_id |-> pid, result |-> r]
       IN IF pid \notin DOMAIN positions
          THEN /\ returns("Position not found")
               /\ UNCHANGED <<positions, db_positions, events>>
          ELSE IF ~can_close(positions[pid])
          THEN /\ returns("Position is not active")
               /\ UNCHANGED <<positions, db_positions, events>>
          ELSE
            LET position == positions[pid]
                current_price == IF position.market \in DOMAIN prices
                                 THEN prices[position.market]
                                 ELSE position.entry_price
                pnl == close_pnl(position, current_price)
            IN /\ positions' = [positions EXCEPT
                                  ![pid].status = "Closed",
                                  ![pid].closed_at = Some(now)]
               /\ db_positions' = db_close_position(db_positions, pid, now,
                                                    pnl.trader, pnl.mm)
               /\ events' = Append(events, [type |-> "position_closed",
                                            id |-> pid,
                                            pnl_trader |-> pnl.trader,
                                            pnl_mm |-> pnl.mm])
               /\ returns("ok")
  /\ UNCHANGED <<now, requests, quotes, agent_positions, prices, uuids, acc,
                 price_time, liq, funding_payments, settlements>>
  /\ UNCHANGED <<bookVars, svcVars>>

\* ------------------------------------------------------------------------
\* liquidation.rs
\* ------------------------------------------------------------------------
\* LiquidationConfig::default().dry_run, the configuration main.rs starts
\* the engine with
dry_run == FALSE

\* the orders in which an iteration of a DashMap may yield the ids of S
Orderings(S) ==
  {s \in [1..Cardinality(S) -> S] :
     \A i, j \in 1..Cardinality(S) : s[i] = s[j] => i = j}

ActivePositions ==
  {id \in DOMAIN positions : positions[id].status = "Active"}

\* the loop goes on to the next position of its snapshot, or sleeps
LiqAdvance(l) ==
  IF Tail(l.queue) = <<>> THEN NoLiquidation
  ELSE [NoLiquidation EXCEPT !.pc = "check", !.queue = Tail(l.queue)]

LiqUnchanged ==
  UNCHANGED <<now, requests, quotes, agent_positions, prices, uuids, acc,
              price_time, funding_payments, settlements, last_close>>

\* ticker.tick(), then the clones of the Active positions are collected;
\* with none the loop continues to the next tick
LiqTick ==
  /\ liq.pc = "idle"
  /\ ActivePositions # {}
  /\ \E order \in Orderings(ActivePositions) :
       liq' = [NoLiquidation EXCEPT
                 !.pc = "check",
                 !.queue = [i \in 1..Len(order) |-> positions[order[i]]]]
  /\ UNCHANGED <<positions, db_positions, events>>
  /\ LiqUnchanged
  /\ UNCHANGED <<bookVars, svcVars>>

\* state.prices.get(&position.market), then should_liquidate; price_age
\* notes how old the price read here is
LiqCheck ==
  /\ liq.pc = "check"
  /\ LET position == Head(liq.queue)
         current_price == IF position.market \in DOMAIN prices
                          THEN prices[position.market]
                          ELSE position.entry_price
     IN liq' = IF should_liquidate(position, current_price)
               THEN [liq EXCEPT
                       !.pc = IF dry_run THEN "broadcast" ELSE "mark",
                       !.position = Some(position),
                       !.current_price = current_price,
                       !.price_age = now - price_time[position.market]]
               ELSE LiqAdvance(liq)
  /\ UNCHANGED <<positions, db_positions, events>>
  /\ LiqUnchanged
  /\ UNCHANGED <<bookVars, svcVars>>

\* execute_liquidation: state.positions.get_mut(&position.id)
LiqMark ==
  /\ liq.pc = "mark"
  /\ LET id == liq.position[1].id
     IN positions' = IF id \in DOMAIN positions
                     THEN [positions EXCEPT ![id].status = "Liquidated",
                                            ![id].closed_at = Some(now)]
                     ELSE positions
  /\ liq' = [liq EXCEPT !.pc = "db"]
  /\ UNCHANGED <<db_positions, events>>
  /\ LiqUnchanged
  /\ UNCHANGED <<bookVars, svcVars>>

\* execute_liquidation: state.db.close_position(id, -collateral,
\* collateral * 0.99)
LiqDbClose ==
  /\ liq.pc = "db"
  /\ LET position == liq.position[1]
     IN db_positions' =
          db_close_position(db_positions, position.id, now,
                            RatNeg(Rat(position.trader_collateral, 1)),
                            RatMul(Rat(position.trader_collateral, 1),
                                   Rat(99, 100)))
  /\ liq' = [liq EXCEPT !.pc = "broadcast"]
  /\ UNCHANGED <<positions, events>>
  /\ LiqUnchanged
  /\ UNCHANGED <<bookVars, svcVars>>

\* broadcast_tx.send(WsMessage::Liquidation(event))
LiqBroadcast ==
  /\ liq.pc = "broadcast"
  /\ events' = Append(events, [type |-> "liquidation",
                               id |-> liq.position[1].id])
  /\ liq' = LiqAdvance(liq)
  /\ UNCHANGED <<positions, db_positions>>
  /\ LiqUnchanged
  /\ UNCHANGED <<bookVars, svcVars>>

\* ------------------------------------------------------------------------
\* funding.rs
\* ------------------------------------------------------------------------
\* FundingConfig::default()
interval_hours == 8

funding_dry_run == FALSE

periods_per_year == (365 * 24) \div interval_hours

\* position.size_usdc * position.funding_rate / periods_per_year, the rate
\* being in basis points
payment_amount(position) ==
  Rat(position.size_usdc * position.funding_rate, 10000 * periods_per_year)

FundingPayment(position) ==
  [position_id |-> position.id, trader_agent |-> position.trader_agent,
   mm_agent |-> position.mm_agent, funding_rate |-> position.funding_rate,
   position_size |-> position.size_usdc,
   payment_amount |-> payment_amount(position), settled_at |-> now]

\* settle_funding: one payment per Active position, saved to the database
SettleFunding ==
  /\ settlements < MaxSettlements
  /\ settlements' = settlements + 1
  /\ \E order \in Orderings(ActivePositions) :
       funding_payments' =
         IF funding_dry_run THEN funding_payments
         ELSE funding_payments \o
                [i \in 1..Len(order) |-> FundingPayment(positions[order[i]])]
  /\ UNCHANGED <<now, requests, quotes, positions, agent_positions, prices,
                 db_positions, events, uuids, acc, price_time, liq,
                 last_close>>
  /\ UNCHANGED <<bookVars, svcVars>>

\* ------------------------------------------------------------------------
\* middleware.rs: RateLimiter
\* ------------------------------------------------------------------------
\* Duration::saturating_sub
saturating_sub(a, b) == IF a >= b THEN a - b ELSE 0

\* RateLimiter::check; the entry guard is held for the whole call.  Returns
\* the entry as it is left and (allowed, remaining, reset_secs)
check(e, ip, at) ==
  LET entry0 == IF ip \in DOMAIN e THEN e[ip]
                ELSE [count |-> 0, window_start |-> at]
      entry == IF at - entry0.window_start >= window_duration
               THEN [count |-> 0, window_start |-> at]
               ELSE entry0
      reset_secs == saturating_sub(window_duration, at - entry.window_start)
  IN IF entry.count >= max_requests
     THEN [entry |-> entry, allowed |-> FALSE, remaining |-> 0,
           reset_secs |-> reset_secs]
     ELSE [entry |-> [entry EXCEPT !.count = entry.count + 1],
           allowed |-> TRUE,
           remaining |-> saturating_sub(max_requests, entry.count + 1),
           reset_secs |-> reset_secs]

\* rate_limit_middleware: one request from a client IP goes through check
RateLimit ==
  /\ \E ip \in ClientIps :
       LET r == check(entries, ip, now)
       IN /\ entries' = PutKey(entries, ip, r.entry)
          /\ served' = IF r.allowed
                       THEN [served EXCEPT ![ip][now] = @ + 1]
                       ELSE served
          /\ last_check' = [ip |-> ip, allowed |-> r.allowed,
                            remaining |-> r.remaining,
                            reset_secs |-> r.reset_secs]
  /\ UNCHANGED <<coreVars, db_agents, key_counter, authVars, riskVars,
                 storeVars, progVars>>

\* ------------------------------------------------------------------------
\* Agents: handlers::register_agent, AppState::register_agent,
\* AppState::validate_api_key, Database::save_agent, auth_middleware
\* ------------------------------------------------------------------------
\* a table that refuses a second row with the same id
\* INSERT OR REPLACE INTO agents: id is the primary key and api_key is
\* UNIQUE, so the rows that clash on either are deleted first
save_agent(db, agent) ==
  LET kept == {id \in DOMAIN db :
                 id # agent.id /\ db[id].api_key # agent.api_key}
  IN PutKey([id \in kept |-> db[id]], agent.id, agent)

\* Database::save_funding_payment: a plain INSERT, refused when the id,
\* the primary key, is already in the table
save_funding_payment(table, payment) ==
  IF payment.id \in DOMAIN table
  THEN [table |-> table, result |-> "Err"]
  ELSE [table |-> PutKey(table, payment.id, payment), result |-> "Ok"]

\* Database::new: the empty tables of init_schema
Database_new == [agents |-> << >>, positions |-> << >>,
                 funding_payments |-> << >>]

InitStore ==
  /\ store = Database_new
  /\ writes = <<>>

\* the arguments of the writes: api keys, position ids, PnL of the trader,
\* funding payment ids
WriteApiKeys == {1, 2}
WritePositionIds == {1}
WritePnls == {-1, 1}
WritePaymentIds == {1, 2}

Write(op, agent, id, value) ==
  [op |-> op, agent |-> agent, id |-> id, value |-> value]

\* a write applied to the store and appended to the log
Applied(write, result) == Append(writes, [write |-> write, result |-> result])

\* Database::save_agent
DbSaveAgent ==
  /\ Len(writes) < MaxWrites
  /\ \E id \in Traders, api_key \in WriteApiKeys :
       /\ store' = [store EXCEPT
                      !.agents = save_agent(@, [id |-> id, api_key |-> api_key,
                                                is_mm |-> FALSE])]
       /\ writes' = Applied(Write("save_agent", id, 0, api_key), "Ok")
  /\ UNCHANGED <<coreVars, limiterVars, db_agents, key_counter, authVars,
                 riskVars, progVars>>

\* Database::save_position of a position as accept_quote builds it
DbSavePosition ==
  /\ Len(writes) < MaxWrites
  /\ \E id \in WritePositionIds :
       /\ store' = [store EXCEPT
                      !.positions = save_position(@, [id |-> id,
                                                       status |-> "Active",
                                                       closed_at |-> None])]
       /\ writes' = Applied(Write("save_position", "", id, 0), "Ok")
  /\ UNCHANGED <<coreVars, limiterVars, db_agents, key_counter, authVars,
                 riskVars, progVars>>

\* Database::close_position, closed_at being Utc::now()
DbClosePosition ==
  /\ Len(writes) < MaxWrites
  /\ \E id \in WritePositionIds, pnl_trader \in WritePnls :
       /\ store' = [store EXCEPT
                      !.positions = db_close_position(@, id, now, pnl_trader,
                                                      0 - pnl_trader)]
       /\ writes' = Applied(Write("close_position", "", id, pnl_trader), "Ok")
  /\ UNCHANGED <<coreVars, limiterVars, db_agents, key_counter, authVars,
                 riskVars, progVars>>

\* Database::save_funding_payment
DbSaveFundingPayment ==
  /\ Len(writes) < MaxWrites
  /\ \E id \in WritePaymentIds, position_id \in WritePositionIds :
       LET saved == save_funding_payment(
                      store.funding_payments,
                      [id |-> id, position_id |-> position_id,
                       payment_amount |-> 1])
       IN /\ store' = [store EXCEPT !.funding_payments = saved.table]
          /\ writes' = Applied(Write("save_funding_payment", "", id,
                                     position_id), saved.result)
  /\ UNCHANGED <<coreVars, limiterVars, db_agents, key_counter, authVars,
                 riskVars, progVars>>

\* Database::get_agent_by_api_key
get_agent_by_api_key(db, api_key) ==
  LET found == {id \in DOMAIN db : db[id].api_key = api_key}
  IN IF found = {} THEN None ELSE Some(db[CHOOSE id \in found : TRUE])

\* AppState::validate_api_key: the caches first, then the database, whose
\* answer is put in the caches.  Returns the agent and the caches
validate_api_key(api_key) ==
  IF api_key \in DOMAIN api_keys
  THEN [agent |-> IF api_keys[api_key] \in DOMAIN agents
                  THEN Some(agents[api_keys[api_key]]) ELSE None,
        api_keys |-> api_keys, agents |-> agents]
  ELSE LET row == get_agent_by_api_key(db_agents, api_key)
       IN IF row = None
          THEN [agent |-> None, api_keys |-> api_keys, agents |-> agents]
          ELSE [agent |-> row,
                api_keys |-> PutKey(api_keys, row[1].api_key, row[1].id),
                agents |-> PutKey(agents, row[1].id, row[1])]

\* the X-API-Key header of a request: none, a key that was issued, or one
\* that never was
ApiKeyHeaders == {None} \cup {Some(k) : k \in 1..(MaxRegistrations + 1)}

\* auth_middleware: a key that validates puts its agent in the request
\* extensions; the request goes on to the handler in every case
auth_middleware ==
  \E header \in ApiKeyHeaders :
    LET v == IF header = None
             THEN [agent |-> None, api_keys |-> api_keys, agents |-> agents]
             ELSE validate_api_key(header[1])
    IN /\ http' = [api_key |-> header, agent |-> v.agent]
       /\ api_keys' = v.api_keys
       /\ agents' = v.agents

\* POST /agents/register: a fresh key, then AppState::register_agent
RegisterAgent ==
  /\ key_counter < MaxRegistrations
  /\ \E id \in Traders \cup MarketMakers, is_mm \in BOOLEAN :
       LET api_key == key_counter + 1
           agent == [id |-> id, api_key |-> api_key, is_mm |-> is_mm]
       IN /\ db_agents' = save_agent(db_agents, agent)
          /\ api_keys' = PutKey(api_keys, api_key, id)
          /\ agents' = PutKey(agents, id, agent)
          /\ key_counter' = api_key
  /\ UNCHANGED <<coreVars, limiterVars, http, riskVars, storeVars,
                 progVars>>

\* POST /trade/request as the router serves it: the auth middleware, then
\* the handler
PostTradeRequest == auth_middleware /\ HandleCreateTradeRequest

\* ------------------------------------------------------------------------
\* state.rs: the read accessors of the negotiation ledger
\* ------------------------------------------------------------------------
NoListing == [op |-> "none", request_ids |-> {}, quotes |-> <<>>]

\* AppState::get_active_requests: the requests with expires_at > now; the
\* map is only read
GetActiveRequests ==
  /\ listed' = [op |-> "get_active_requests",
                request_ids |-> {rid \in DOMAIN requests :
                                   requests[rid].expires_at > now},
                quotes |-> <<>>]
  /\ UNCHANGED <<coreVars, limiterVars, db_agents, key_counter, authVars,
                 riskVars, storeVars, breakerVars, escrowVars>>

\* AppState::get_quotes: a clone of the request's quotes, expired or not
GetQuotes ==
  /\ \E request_id \in 1..MaxRequests :
       listed' = [op |-> "get_quotes", request_ids |-> {request_id},
                  quotes |-> IF request_id \in DOMAIN quotes
                             THEN quotes[request_id] ELSE <<>>]
  /\ UNCHANGED <<coreVars, limiterVars, db_agents, key_counter, authVars,
                 riskVars, storeVars, breakerVars, escrowVars>>

\* ------------------------------------------------------------------------
\* api-server risk.rs.  f64 amounts are whole dollars.
\* ------------------------------------------------------------------------
\* everything the api-server's risk module leaves alone
baseVars == <<coreVars, limiterVars, db_agents, key_counter, authVars,
              riskVars, storeVars>>

\* RiskParams::default()
RiskParams_default ==
  [max_leverage |-> 10, max_position_size_usd |-> 10000,
   max_daily_loss_usd |-> 1000, max_positions |-> 10,
   circuit_breaker_enabled |-> TRUE, circuit_breaker_loss_pct |-> 50]

\* the arguments of check_order_risk
Leverages == {0, 5, 20}
SizesUsd == {0, 1000, 20000}
CurrentPositions == {0, 10}
DailyPnls == {-2000, 0}
AvailableMargins == {100, 10000}
\* cooldown_seconds of CircuitBreaker::trigger
CooldownSeconds == {0, 1}

\* size_usd / leverage as f64 > available_margin: a division by zero gives
\* +inf for a positive size, NaN for zero and -inf for a negative one
margin_exceeded(size_usd, leverage, available_margin) ==
  IF leverage = 0 THEN size_usd > 0
  ELSE size_usd > available_margin * leverage

\* check_order_risk without the position count
check_order_risk_no_count(params, leverage, size_usd, current_positions, daily_pnl, available_margin) ==
  IF leverage > params.max_leverage THEN "ExceedsMaxLeverage"
  ELSE IF size_usd > params.max_position_size_usd
  THEN "ExceedsMaxPositionSize"
  ELSE IF daily_pnl < 0 /\ Abs(daily_pnl) > params.max_daily_loss_usd
  THEN "ExceedsDailyLossLimit"
  ELSE IF margin_exceeded(size_usd, leverage, available_margin)
  THEN "InsufficientMargin"
  ELSE "Allowed"

\* check_order_risk: "Allowed" or the RiskRejection
check_order_risk(params, leverage, size_usd, current_positions, daily_pnl, available_margin) ==
  IF leverage > params.max_leverage THEN "ExceedsMaxLeverage"
  ELSE IF size_usd > params.max_position_size_usd
  THEN "ExceedsMaxPositionSize"
  ELSE IF current_positions >= params.max_positions
  THEN "ExceedsMaxPositions"
  ELSE IF daily_pnl < 0 /\ Abs(daily_pnl) > params.max_daily_loss_usd
  THEN "ExceedsDailyLossLimit"
  ELSE IF margin_exceeded(size_usd, leverage, available_margin)
  THEN "InsufficientMargin"
  ELSE "Allowed"

\* CircuitBreaker::new
CircuitBreaker_new ==
  [triggered |-> FALSE, triggered_at |-> None, cooldown_until |-> None]

\* a breaker that stays latched whatever the clock says
breaker_is_latched(cb, at) == cb.triggered

\* CircuitBreaker::is_active at the time at
breaker_is_active(cb, at) ==
  IF ~cb.triggered THEN FALSE
  ELSE IF cb.cooldown_until # None /\ at > cb.cooldown_until[1] THEN FALSE
  ELSE TRUE

NoOrderCheck ==
  [op |-> "none", leverage |-> 0, size_usd |-> 0, current_positions |-> 0,
   daily_pnl |-> 0, available_margin |-> 0, breaker_active |-> FALSE,
   result |-> ""]

InitBreaker ==
  /\ breaker = CircuitBreaker_new
  /\ order_check = NoOrderCheck
  /\ listed = NoListing

\* CircuitBreaker::trigger
BreakerTrigger ==
  /\ \E cooldown_seconds \in CooldownSeconds :
       breaker' = [triggered |-> TRUE, triggered_at |-> Some(now),
                   cooldown_until |-> Some(now + cooldown_seconds)]
  /\ order_check' = [NoOrderCheck EXCEPT !.op = "trigger"]
  /\ UNCHANGED <<baseVars, listed, escrowVars>>

\* CircuitBreaker::reset
BreakerReset ==
  /\ breaker' = CircuitBreaker_new
  /\ order_check' = [NoOrderCheck EXCEPT !.op = "reset"]
  /\ UNCHANGED <<baseVars, listed, escrowVars>>

\* a new-order intent of the agent: check_order_risk
CheckOrderRisk ==
  /\ \E leverage \in Leverages, size_usd \in SizesUsd,
        current_positions \in CurrentPositions, daily_pnl \in DailyPnls,
        available_margin \in AvailableMargins :
       order_check' =
         [op |-> "check", leverage |-> leverage, size_usd |-> size_usd,
          current_positions |-> current_positions, daily_pnl |-> daily_pnl,
          available_margin |-> available_margin,
          breaker_active |-> breaker_is_active(breaker, now),
          result |-> check_order_risk(RiskParams_default, leverage, size_usd,
                                      current_positions, daily_pnl,
                                      available_margin)]
  /\ UNCHANGED <<baseVars, breaker, listed, escrowVars>>

\* ------------------------------------------------------------------------
\* escrow-program lib.rs: one position account.  Amounts are u64 token
\* units far below u64::MAX, prices and rates have 8 decimals.
\* ------------------------------------------------------------------------
\* the 8-decimal scale, 100_000_000
PriceScale == 10000 * 10000

\* a * b / c on non-negative integers without forming a * b
MulDiv(a, b, c) == a * (b \div c) + (a * (b % c)) \div c

\* initialize(fee_bps, liquidation_reward_bps)
EscrowConfig == [fee_bps |-> 50, liquidation_reward_bps |-> 500]

\* the arguments of lock_position, close_position and liquidate
EscrowSides == {0, 1}
EscrowLeverages == {1, 2}
EscrowFundingRates == {0 - (PriceScale \div 2), PriceScale \div 2}
EscrowCollaterals == {5, 10}
EscrowPrices == {50, 100, 150}
EscrowSizes == {10}
EscrowEntryPrices == {100}

\* seconds between two funding settlements
FundingPeriodSecs == 8 * 3600

\* calculate_pnl: the pair it returns, which is (-trader_pnl, trader_pnl);
\* the i128 divisions truncate toward zero
calculate_pnl(entry_price, exit_price, size, leverage, side) ==
  LET price_change ==
        IF exit_price > entry_price
        THEN MulDiv(exit_price - entry_price, PriceScale, entry_price)
        ELSE 0 - MulDiv(entry_price - exit_price, PriceScale, entry_price)
      leveraged_change == price_change * leverage
      pnl == IF leveraged_change >= 0
             THEN MulDiv(size, leveraged_change, PriceScale)
             ELSE 0 - MulDiv(size, 0 - leveraged_change, PriceScale)
      trader_pnl == IF side = 0 THEN pnl ELSE 0 - pnl
  IN <<0 - trader_pnl, trader_pnl>>

\* collateral.saturating_add(pnl) or saturating_sub(-pnl)
apply_pnl(collateral, pnl) ==
  IF pnl >= 0 THEN collateral + pnl ELSE saturating_sub(collateral, 0 - pnl)

NoEscrow ==
  [status |-> "None", side |-> 0, size |-> 0, entry_price |-> 0,
   leverage |-> 0, funding_rate |-> 0, trader_collateral |-> 0,
   mm_collateral |-> 0, last_funding_at |-> 0, clock |-> 0, locked |-> 0]

NoEscrowCall ==
  [op |-> "none", price |-> 0, funding_amount |-> 0, trader_payout |-> 0,
   mm_payout |-> 0, liquidation_reward |-> 0, result |-> ""]

InitEscrow ==
  /\ escrow = NoEscrow
  /\ escrow_out = NoEscrowCall

EscrowUnchanged == UNCHANGED <<baseVars, breakerVars, listed>>

\* Clock::get(): eight more hours have passed
EscrowTick ==
  /\ escrow.clock < MaxFundingPeriods * FundingPeriodSecs
  /\ escrow' = [escrow EXCEPT !.clock = @ + FundingPeriodSecs]
  /\ UNCHANGED escrow_out
  /\ EscrowUnchanged

\* lock_position: both collaterals go to the vault, the fee on to the
\* treasury
LockPosition ==
  /\ escrow.status = "None"
  /\ \E side \in EscrowSides, leverage \in EscrowLeverages,
        funding_rate \in EscrowFundingRates,
        trader_collateral \in EscrowCollaterals,
        mm_collateral \in EscrowCollaterals, size \in EscrowSizes,
        entry_price \in EscrowEntryPrices :
       /\ leverage >= 1 /\ leverage <= 100
       /\ size > 0
       /\ escrow' = [escrow EXCEPT
                       !.status = "Active", !.side = side,
                       !.size = size, !.entry_price = entry_price,
                       !.leverage = leverage, !.funding_rate = funding_rate,
                       !.trader_collateral = trader_collateral,
                       !.mm_collateral = mm_collateral,
                       !.last_funding_at = escrow.clock,
                       !.locked = trader_collateral + mm_collateral]
  /\ escrow_out' = [NoEscrowCall EXCEPT !.op = "lock_position",
                                        !.result = "Ok"]
  /\ EscrowUnchanged

\* settle_funding
EscrowSettleFunding ==
  /\ LET position == escrow
         returns(r) == escrow_out' = [NoEscrowCall EXCEPT
                                        !.op = "settle_funding", !.result = r]
         hours_elapsed == (position.clock - position.last_funding_at)
                            \div 3600
         periods == hours_elapsed \div 8
         funding_amount == (Abs(position.funding_rate) * position.size
                              * periods) \div PriceScale
         trader_pays == (position.funding_rate > 0) = (position.side = 0)
     IN IF position.status # "Active"
        THEN returns("PositionNotActive") /\ UNCHANGED escrow
        ELSE IF ~(hours_elapsed >= 8)
        THEN returns("TooEarlyForFunding") /\ UNCHANGED escrow
        ELSE
          /\ escrow' =
               IF trader_pays
               THEN [position EXCEPT
                       !.trader_collateral = saturating_sub(@, funding_amount),
                       !.mm_collateral = @ + funding_amount,
                       !.last_funding_at = position.clock]
               ELSE [position EXCEPT
                       !.mm_collateral = saturating_sub(@, funding_amount),
                       !.trader_collateral = @ + funding_amount,
                       !.last_funding_at = position.clock]
          /\ escrow_out' = [NoEscrowCall EXCEPT
                              !.op = "settle_funding",
                              !.funding_amount = funding_amount,
                              !.result = "Ok"]
  /\ EscrowUnchanged

\* close_position(exit_price)
EscrowClosePosition ==
  /\ \E exit_price \in EscrowPrices :
       LET position == escrow
           pnl == calculate_pnl(position.entry_price, exit_price,
                                position.size, position.leverage,
                                position.side)
           trader_pnl == pnl[1]
           trader_final == apply_pnl(position.trader_collateral, trader_pnl)
           total_locked == position.trader_collateral + position.mm_collateral
           trader_payout == Min(trader_final, total_locked)
           mm_payout == saturating_sub(total_locked, trader_payout)
       IN IF position.status # "Active"
          THEN /\ escrow_out' = [NoEscrowCall EXCEPT
                                   !.op = "close_position",
                                   !.price = exit_price,
                                   !.result = "PositionNotActive"]
               /\ UNCHANGED escrow
          ELSE /\ escrow' = [position EXCEPT !.status = "Closed"]
               /\ escrow_out' = [NoEscrowCall EXCEPT
                                   !.op = "close_position",
                                   !.price = exit_price,
                                   !.trader_payout = trader_payout,
                                   !.mm_payout = mm_payout,
                                   !.result = "Ok"]
  /\ EscrowUnchanged

\* liquidate(current_price)
EscrowLiquidate ==
  /\ \E current_price \in EscrowPrices :
       LET position == escrow
           returns(r) == escrow_out' = [NoEscrowCall EXCEPT
                                          !.op = "liquidate",
                                          !.price = current_price,
                                          !.result = r]
           pnl == calculate_pnl(position.entry_price, current_price,
                                position.size, position.leverage,
                                position.side)
           trader_pnl == pnl[1]
           remaining_collateral == apply_pnl(position.trader_collateral,
                                             trader_pnl)
           maintenance == position.trader_collateral \div 2
           total_locked == position.trader_collateral + position.mm_collateral
           liquidation_reward ==
             (total_locked * EscrowConfig.liquidation_reward_bps) \div 10000
           mm_payout == saturating_sub(total_locked, liquidation_reward)
       IN IF position.status # "Active"
          THEN returns("PositionNotActive") /\ UNCHANGED escrow
          ELSE IF ~(remaining_collateral < maintenance)
          THEN returns("PositionHealthy") /\ UNCHANGED escrow
          ELSE /\ escrow' = [position EXCEPT !.status = "Liquidated"]
               /\ escrow_out' = [NoEscrowCall EXCEPT
                                   !.op = "liquidate",
                                   !.price = current_price,
                                   !.mm_payout = mm_payout,
                                   !.liquidation_reward = liquidation_reward,
                                   !.result = "Ok"]
  /\ EscrowUnchanged

\* ------------------------------------------------------------------------
\* Specifications
\* ------------------------------------------------------------------------
Init == InitBook /\ InitRouter /\ InitRisk /\ InitStore /\ InitBreaker
        /\ InitEscrow

\* the matching engine
Next == PlaceLimit \/ PlaceMarket \/ CancelOrder

Spec == Init /\ [][Next]_vars

\* the matching engine with the quantities it does not check
NextUnvalidated == Next \/ PlaceInvalid

SpecUnvalidated == Init /\ [][NextUnvalidated]_vars

\* the trade router
NextRouter ==
  \/ Tick
  \/ CreateTradeRequest
  \/ CreateQuote
  \/ \E t \in Threads : Accept(t)

SpecRouter == Init /\ [][NextRouter]_vars

\* the life of a position within one reading of the clock: one thread
\* opens it; the price feed, the liquidation loop and close_position act on
\* it in any interleaving
NextLiquidation ==
  \/ CreateTradeRequest
  \/ CreateQuote
  \/ Accept("t1")
  \/ PriceFeed
  \/ ClosePosition
  \/ LiqTick
  \/ LiqCheck
  \/ LiqMark
  \/ LiqDbClose
  \/ LiqBroadcast

SpecLiquidation == Init /\ [][NextLiquidation]_vars

\* the same with the clock advancing, so that prices age
NextStale == NextLiquidation \/ Tick

SpecStale == Init /\ [][NextStale]_vars

\* the funding engine on the positions one thread opens
NextFunding ==
  \/ CreateTradeRequest
  \/ CreateQuote
  \/ Accept("t1")
  \/ ClosePosition
  \/ SettleFunding

SpecFunding == Init /\ [][NextFunding]_vars

\* quotes arriving from the HTTP handler and from the demo market maker
\* while requests are accepted, within one reading of the clock
NextQuotes ==
  \/ CreateTradeRequest
  \/ SubmitStart
  \/ SubmitCheck
  \/ SubmitAddQuote
  \/ SubmitPush
  \/ DemoVisit
  \/ DemoCheck
  \/ DemoPush
  \/ \E t \in Threads : Accept(t)

SpecQuotes == Init /\ [][NextQuotes]_vars

\* the two sources of quotes with the clock advancing, so that requests
\* expire; nothing is accepted
NextQuotesExpiry ==
  \/ Tick
  \/ CreateTradeRequest
  \/ SubmitStart
  \/ SubmitCheck
  \/ SubmitAddQuote
  \/ SubmitPush
  \/ DemoVisit
  \/ DemoCheck
  \/ DemoPush

SpecQuotesExpiry == Init /\ [][NextQuotesExpiry]_vars

\* requests passing the rate limiter as the clock advances
NextLimiter == Tick \/ RateLimit

SpecLimiter == Init /\ [][NextLimiter]_vars

\* agents register and post trade requests through the auth middleware
NextAgents == RegisterAgent \/ PostTradeRequest \/ Tick

SpecAgents == Init /\ [][NextAgents]_vars

\* the risk engine of the matching engine: fills, deposits, withdrawals
NextRisk == ApplyFill \/ Deposit \/ Withdraw

SpecRisk == Init /\ [][NextRisk]_vars

\* a log of writes applied to the durable store while time passes
NextStore ==
  \/ Tick
  \/ DbSaveAgent
  \/ DbSavePosition
  \/ DbClosePosition
  \/ DbSaveFundingPayment

SpecStore == Init /\ [][NextStore]_vars

\* the api-server's risk module: order checks while a breaker is triggered,
\* reset and cooling down
NextBreaker ==
  \/ Tick
  \/ BreakerTrigger
  \/ BreakerReset
  \/ CheckOrderRisk

SpecBreaker == Init /\ [][NextBreaker]_vars

\* the life of one escrow position while the clock advances
NextEscrow ==
  \/ EscrowTick
  \/ LockPosition
  \/ EscrowSettleFunding
  \/ EscrowClosePosition
  \/ EscrowLiquidate

SpecEscrow == Init /\ [][NextEscrow]_vars

\* the negotiation ledger while time passes: requests, quotes, accepts and
\* the read accessors.  The clock and the readers always get their turn,
\* and so does a trader who keeps calling accept_quote.
NextLedger ==
  \/ Tick
  \/ CreateTradeRequest
  \/ CreateQuote
  \/ Accept("t1")
  \/ GetActiveRequests
  \/ GetQuotes

SpecLedger ==
  /\ Init
  /\ [][NextLedger]_vars
  /\ WF_vars(Tick)
  /\ WF_vars(GetActiveRequests)
  /\ WF_vars(GetQuotes)
  /\ WF_vars(Accept("t1"))

\* ------------------------------------------------------------------------
\* Observations used by the properties
\* ------------------------------------------------------------------------
LevelOrders(levels) ==
  UNION {{levels[p].orders[i] : i \in 1..Len(levels[p].orders)} :
         p \in DOMAIN levels}

\* the orders resting in a book
RestingOf(b) == LevelOrders(b.bids) \cup LevelOrders(b.asks)

\* the price of the level an order rests at, looked up in the levels
LevelPriceOf(b, id) ==
  CHOOSE p \in Prices :
    \/ p \in DOMAIN b.bids /\ HasOrder(b.bids[p], id)
    \/ p \in DOMAIN b.asks /\ HasOrder(b.asks[p], id)

IsResting(b, id) == \E o \in RestingOf(b) : o.id = id

\* remaining quantity of an order in a book, 0 once it has left
RemainingIn(b, id) ==
  IF IsResting(b, id)
  THEN (CHOOSE o \in RestingOf(b) : o.id = id).remaining_quantity
  ELSE 0

TradedQty(trades, id) ==
  SumSeq([i \in 1..Len(trades) |->
            IF trades[i].maker_order_id = id \/ trades[i].taker_order_id = id
            THEN trades[i].quantity ELSE 0])

SameLevels(b1, b2) ==
  b1.bids = b2.bids /\ b1.asks = b2.asks /\ b1.orders = b2.orders

\* a limit price that reaches the best opposite price of the book
Crosses(b, o) ==
  /\ o.price # None
  /\ IF o.side = "Buy"
     THEN DOMAIN b.asks # {} /\ MinOf(DOMAIN b.asks) <= o.price[1]
     ELSE DOMAIN b.bids # {} /\ MaxOf(DOMAIN b.bids) >= o.price[1]

WithinLimit(o, p) ==
  o.price # None => IF o.side = "Buy" THEN p <= o.price[1] ELSE p >= o.price[1]

StrictlyBetter(side, q, p) == IF side = "Buy" THEN q < p ELSE q > p

C2_WalkFromBest ==
  [][last'.op = "place" =>
      LET o == last'.returned[1]
          before == OppositeLevels(book, o.side)
          after == OppositeLevels(book', o.side)
          touched(p) == \/ p \notin DOMAIN after
                        \/ after[p] # before[p]
                        \/ \E k \in 1..Len(last'.matched) :
                             last'.matched[k].price = p
      IN \A p \in DOMAIN before :
           touched(p) =>
             /\ WithinLimit(o, p)
             /\ \A q \in DOMAIN before :
                  StrictlyBetter(o.side, q, p) => q \notin DOMAIN after]_vars

\* a taker has traded at two levels, and a level beyond its limit is left
C2_Witness ==
  /\ last.op = "place"
  /\ Len(last.trades) >= 2
  /\ last.trades[1].price # last.trades[2].price

\* ------------------------------------------------------------------------
\* C3  Every returned trade has the price of the level its maker rested at
\* and the quantity min(taker remaining, maker remaining) at the moment of
\* the fill; a limit taker never trades beyond its limit.
\* ------------------------------------------------------------------------
C3_TradePriceAndQuantity ==
  [][last'.op = "place" =>
      LET o == last'.returned[1]
          tr == last'.trades
          takerLeft(k) == o.quantity
                          - SumSeq([l \in 1..(k - 1) |-> tr[l].quantity])
      IN \A k \in 1..Len(tr) :
           /\ IsResting(book, tr[k].maker_order_id)
           /\ tr[k].taker_order_id = o.id
           /\ tr[k].price = LevelPriceOf(book, tr[k].maker_order_id)
           /\ tr[k].quantity =
                Min(takerLeft(k), RemainingIn(book, tr[k].maker_order_id))
           /\ WithinLimit(o, tr[k].price)]_vars

\* a limit buy has traded below its limit, after an earlier fill
C3_Witness ==
  /\ last.op = "place"
  /\ Len(last.trades) >= 2
  /\ last.returned[1].price # None
  /\ last.returned[1].side = "Buy"
  /\ last.trades[1].price < last.returned[1].price[1]

\* ------------------------------------------------------------------------
\* C4  Conservation of quantity: what a placement takes off an order's
\* remaining quantity is what the returned trades naming that order add up
\* to, for the taker and for every maker.
\* ------------------------------------------------------------------------
C4_Conservation ==
  [][last'.op = "place" =>
      LET t == last'.order[1]
          madeAfter(m) ==
            IF \E i \in 1..Len(last'.makers) : last'.makers[i].id = m.id
            THEN last'.makers[CHOOSE i \in 1..Len(last'.makers) :
                                last'.makers[i].id = m.id].remaining_quantity
            ELSE RemainingIn(book', m.id)
      IN /\ t.quantity - t.remaining_quantity = TradedQty(last'.trades, t.id)
         /\ \A m \in RestingOf(book) :
              m.remaining_quantity - madeAfter(m)
                = TradedQty(last'.trades, m.id)]_vars

\* ------------------------------------------------------------------------
\* C5  A PostOnly order that would trade is rejected as a whole: no trades
\* are returned and the book is as it was before the call.
\* ------------------------------------------------------------------------
C5_PostOnlyRejectedWhole ==
  [][(/\ last'.op = "place"
      /\ last'.returned[1].time_in_force = "PostOnly"
      /\ Crosses(book, last'.returned[1]))
     => (last'.trades = <<>> /\ SameLevels(book, book'))]_vars

\* ------------------------------------------------------------------------
\* C6  Fill-or-kill is all-or-nothing: a FOK placement returns trades for
\* its whole quantity, or returns none and leaves the book as it was.
\* ------------------------------------------------------------------------
C6_FillOrKill ==
  [][(last'.op = "place" /\ last'.returned[1].time_in_force = "FOK")
     => \/ TradedQty(last'.trades, last'.order_id)
             = last'.returned[1].quantity
        \/ (last'.trades = <<>> /\ SameLevels(book, book'))]_vars

\* ------------------------------------------------------------------------
\* C7  PostOnly never crosses: after a PostOnly placement the best bid is
\* below the best ask whenever both sides hold orders, and a PostOnly order
\* whose price reached the opposite best is not resting in the book.
\* ------------------------------------------------------------------------
C7_PostOnlyNeverCrosses ==
  [][(last'.op = "place" /\ last'.returned[1].time_in_force = "PostOnly")
     => /\ (DOMAIN book'.bids # {} /\ DOMAIN book'.asks # {})
             => /\ MaxOf(DOMAIN book'.bids) < MinOf(DOMAIN book'.asks)
                /\ book'.best_bid[1] < book'.best_ask[1]
        /\ Crosses(book, last'.returned[1])
             => /\ ~IsResting(book', last'.order_id)
                /\ last'.order_id \notin DOMAIN book'.orders]_vars

\* a crossing PostOnly order has been placed and both sides still hold orders
C7_Witness ==
  /\ last.op = "place"
  /\ last.returned[1].time_in_force = "PostOnly"
  /\ last.matched # <<>>
  /\ DOMAIN book.bids # {}
  /\ DOMAIN book.asks # {}

\* ------------------------------------------------------------------------
\* C8  Cancel requires ownership: a cancel of a resting order by an agent
\* that does not own it fails and leaves the order where it rests.
\* ------------------------------------------------------------------------
C8_CancelRequiresOwnership ==
  [][(/\ last'.op = "cancel"
      /\ \E o \in RestingOf(book) :
           o.id = last'.order_id /\ o.agent_id # last'.agent_id)
     => /\ last'.result # "ok"
        /\ book'.bids = book.bids
        /\ book'.asks = book.asks
        /\ last'.order_id \in DOMAIN book'.orders]_vars

\* ------------------------------------------------------------------------
\* C9  At most one Accept per Request: no two positions are created for one
\* trade request, under any interleaving of accept_quote calls.
\* ------------------------------------------------------------------------
C9_AtMostOneAccept ==
  \A p1, p2 \in DOMAIN positions :
    positions[p1].request_id = positions[p2].request_id => p1 = p2

\* ------------------------------------------------------------------------
\* C10  Expired entries are never matched: an accept_quote call succeeds
\* only if, when it started, the request and the chosen quote were live
\* (expires_at > now, the test of get_active_requests, and likewise
\* valid_until > now).
\* ------------------------------------------------------------------------
C10_ExpiredNeverMatched ==
  \A t \in Threads :
    (acc[t].pc = "done" /\ acc[t].result = "ok")
    => /\ acc[t].request[1].expires_at > acc[t].started
       /\ acc[t].quote[1].valid_until > acc[t].started

\* equity < maintenance margin, over the integers: both sides of
\* collateral + side * size * leverage * (price - entry) / entry
\*   < collateral / 2  are multiplied by 2 * entry
BelowMaintenance(position, price) ==
  LET sgn == IF position.side = "Long" THEN 1 ELSE -1
  IN 2 * (position.trader_collateral * position.entry_price
          + sgn * position.size_usdc * position.leverage
                * (price - position.entry_price))
       < position.trader_collateral * position.entry_price

\* ------------------------------------------------------------------------
\* C11  A position that has left Active is never re-liquidated: no step
\* changes the status of a Closed or Liquidated position, and no step
\* rewrites the close record of a position whose row is already closed.
\* ------------------------------------------------------------------------
C11_NeverReLiquidated ==
  [][\A id \in DOMAIN positions :
       /\ positions[id].status # "Active"
            => positions'[id].status = positions[id].status
       /\ (id \in DOMAIN db_positions /\ db_positions[id].status # "Active")
            => db_positions'[id] = db_positions[id]]_vars

\* ------------------------------------------------------------------------
\* C12  Liquidation threshold: the loop takes up every Active position, goes
\* on to liquidate the one it checks exactly when its equity at the price of
\* its market is strictly below its maintenance margin, and a position
\* becomes Liquidated only that way.
\* ------------------------------------------------------------------------
C12_LiquidationThreshold ==
  [][/\ (liq.pc = "idle" /\ liq'.pc = "check")
          => {liq'.queue[i].id : i \in 1..Len(liq'.queue)} = ActivePositions
     /\ (liq.pc = "check" /\ liq' # liq)
          => LET position == Head(liq.queue)
             IN (liq'.pc = "mark")
                  <=> BelowMaintenance(position, prices[position.market])
     /\ (liq.pc = "mark" /\ liq'.pc # "mark")
          => positions'[liq.position[1].id].status = "Liquidated"
     /\ \A id \in DOMAIN positions :
          (positions'[id].status = "Liquidated"
             /\ positions[id].status # "Liquidated")
          => /\ liq.pc = "mark"
             /\ liq.position[1].id = id
             /\ BelowMaintenance(liq.position[1], liq.current_price)]_vars

\* a position has been liquidated and the loop is through with it
C12_Witness ==
  /\ liq.pc = "idle"
  /\ \E id \in DOMAIN positions :
       /\ positions[id].status = "Liquidated"
       /\ id \in DOMAIN db_positions
       /\ db_positions[id].status = "Closed"
       /\ \E k \in 1..Len(events) :
            events[k].type = "liquidation" /\ events[k].id = id

\* ------------------------------------------------------------------------
\* C13  Staleness policy: the loop liquidates only on a price that the feed
\* refreshed within the freshness bound.
\* ------------------------------------------------------------------------
C13_NeverOnStalePrice ==
  liq.pc \in {"mark", "db", "broadcast"} => liq.price_age <= FreshnessBound

\* ------------------------------------------------------------------------
\* C14  Idempotent close: close_position on a position that is not Active
\* returns an error and leaves positions, the persisted rows and the events
\* as they were; no PositionClosed event is sent for a position that was
\* not Active.
\* ------------------------------------------------------------------------
C14_IdempotentClose ==
  [][/\ \A id \in DOMAIN positions :
          (/\ positions[id].status # "Active"
           /\ Len(events') > Len(events)
           /\ events'[Len(events')].type = "position_closed")
          => events'[Len(events')].id # id
     /\ (/\ last_close' # last_close
         /\ last_close'.position_id \in DOMAIN positions
         /\ positions[last_close'.position_id].status # "Active")
          => /\ last_close'.result = "Position is not active"
             /\ positions' = positions
             /\ db_positions' = db_positions
             /\ events' = events]_vars

\* a close has been refused on a position closed before
C14_Witness ==
  /\ last_close.result = "Position is not active"
  /\ last_close.position_id \in DOMAIN positions
  /\ positions[last_close.position_id].status = "Closed"
  /\ last_close.position_id \in DOMAIN db_positions
  /\ db_positions[last_close.position_id].pnl_trader # None

\* ------------------------------------------------------------------------
\* C15  Funding sign: each funding payment moves value from the long side
\* of its position to the short side when the rate is positive, the other
\* way when it is negative, and the two sides sum to zero.  The trader is
\* debited payment_amount (total_paid) and the market maker credited with
\* it (total_received).
\* ------------------------------------------------------------------------
C15_FundingSign ==
  \A i \in 1..Len(funding_payments) :
    LET pay == funding_payments[i]
        position == positions[pay.position_id]
        trader_gets == 0 - pay.payment_amount.num
        mm_gets == pay.payment_amount.num
        long_gets == IF position.side = "Long" THEN trader_gets ELSE mm_gets
        short_gets == IF position.side = "Long" THEN mm_gets ELSE trader_gets
    IN /\ long_gets + short_gets = 0
       /\ pay.funding_rate > 0 => (long_gets < 0 /\ short_gets > 0)
       /\ pay.funding_rate < 0 => (long_gets > 0 /\ short_gets < 0)

\* the orders a call has produced or left behind: those resting in the book,
\* the taker as the book left it, the makers it hit and the order returned
OrdersSeen ==
  RestingOf(book)
    \cup {last.order[i] : i \in 1..Len(last.order)}
    \cup {last.returned[i] : i \in 1..Len(last.returned)}
    \cup {last.makers[i] : i \in 1..Len(last.makers)}

\* the opposite side holds a level the order can trade at
HasLiquidity(b, o) ==
  LET opp == OppositeLevels(b, o.side)
  IN \E p \in DOMAIN opp : WithinLimit(o, p)

\* ------------------------------------------------------------------------
\* C16  Level aggregate correctness: after every place or cancel, the
\* total_quantity of each price level is the sum of the remaining quantities
\* of the orders resting at that level.
\* ------------------------------------------------------------------------
C16_LevelAggregates ==
  \A levels \in {book.bids, book.asks} :
    \A p \in DOMAIN levels :
      levels[p].total_quantity =
        SumSeq([i \in 1..Len(levels[p].orders) |->
                  levels[p].orders[i].remaining_quantity])

\* a cancel has taken one order out of a level that still holds another
C16_Witness ==
  /\ last.op = "cancel"
  /\ last.result = "ok"
  /\ \E levels \in {book.bids, book.asks} :
       \E p \in DOMAIN levels :
         /\ last.order[1].price = Some(p)
         /\ levels[p].orders # <<>>
         /\ IF last.order[1].side = "Buy" THEN levels = book.bids
            ELSE levels = book.asks

\* ------------------------------------------------------------------------
\* C17  Place returns the final order state: the order that
\* MatchingEngine::place_order returns has remaining quantity = quantity
\* minus the sum of the returned trades, and the status the book gave it.
\* ------------------------------------------------------------------------
C17_PlaceReturnsFinalOrder ==
  last.op = "place" =>
    /\ last.returned[1].remaining_quantity =
         last.returned[1].quantity
           - SumSeq([i \in 1..Len(last.trades) |-> last.trades[i].quantity])
    /\ last.returned[1].status = last.order[1].status

\* ------------------------------------------------------------------------
\* C18  Quantity validation: a placement whose quantity is not strictly
\* positive is rejected, produces no trades and leaves the book unchanged.
\* ------------------------------------------------------------------------
C18_QuantityValidation ==
  [][(last'.op = "place" /\ last'.returned[1].quantity <= 0)
     => /\ last'.result # "ok"
        /\ last'.trades = <<>>
        /\ SameLevels(book, book')]_vars

\* ------------------------------------------------------------------------
\* C19  Order invariants: every order has 0 <= remaining <= quantity and is
\* Filled exactly when remaining = 0; every order resting in the book is
\* Open or PartiallyFilled with remaining > 0.
\* ------------------------------------------------------------------------
C19_OrderInvariants ==
  /\ \A o \in OrdersSeen :
       /\ 0 <= o.remaining_quantity
       /\ o.remaining_quantity <= o.quantity
       /\ (o.status = "Filled") <=> (o.remaining_quantity = 0)
  /\ \A o \in RestingOf(book) :
       /\ o.status \in {"Open", "PartiallyFilled"}
       /\ o.remaining_quantity > 0

\* ------------------------------------------------------------------------
\* C20  An IOC order, and so every market order, never rests: after its
\* placement its id is not in the book and an unfilled residual is
\* cancelled; with no compatible liquidity it makes no trades and leaves
\* the book unchanged.
\* ------------------------------------------------------------------------
C20_IOCNeverRests ==
  [][(/\ last'.op = "place"
      /\ \/ last'.returned[1].time_in_force = "IOC"
         \/ last'.returned[1].order_type = "Market")
     => /\ last'.returned[1].time_in_force = "IOC"
        /\ last'.order_id \notin DOMAIN book'.orders
        /\ ~IsResting(book', last'.order_id)
        /\ last'.order[1].remaining_quantity # 0
             => last'.order[1].status = "Cancelled"
        /\ ~HasLiquidity(book, last'.returned[1])
             => (last'.trades = <<>> /\ SameLevels(book, book'))]_vars

\* an IOC limit order has traded part of its quantity, the rest is cancelled
C20_Witness ==
  /\ last.op = "place"
  /\ last.returned[1].time_in_force = "IOC"
  /\ last.returned[1].order_type = "Limit"
  /\ last.trades # <<>>
  /\ last.order[1].status = "Cancelled"
  /\ last.order[1].remaining_quantity > 0

\* ------------------------------------------------------------------------
\* C21  The book's sequence number is monotone and orders the book's
\* transitions: every place and every successful cancel increases it by
\* exactly one, it never decreases, every step that changes the book
\* advances it, and a cancel that finds no such order leaves the sequence
\* number and the book unchanged.
\* ------------------------------------------------------------------------
C21_SequenceMonotone ==
  [][/\ book'.sequence >= book.sequence
     /\ order_counter' # order_counter
          => book'.sequence = book.sequence + 1
     /\ (last' # last /\ last'.op = "cancel" /\ last'.result = "ok")
          => book'.sequence = book.sequence + 1
     /\ (last'.op = "cancel" /\ last'.result = "OrderNotFound")
          => book' = book
     /\ book' # book => book'.sequence = book.sequence + 1]_vars

\* a successful cancel has followed a placement, and a cancel of an id
\* the book does not hold is possible next
C21_Witness ==
  /\ last.op = "cancel"
  /\ last.result = "ok"
  /\ book.sequence = 2

\* the quotes a step has added under a request id
AddedQuotes(rid) ==
  IF rid \notin DOMAIN quotes' THEN <<>>
  ELSE IF rid \notin DOMAIN quotes THEN quotes'[rid]
  ELSE SubSeq(quotes'[rid], Len(quotes[rid]) + 1, Len(quotes'[rid]))

\* ------------------------------------------------------------------------
\* C22  A quote is stored for a request only if, when it is stored, the
\* request exists, has not expired and the quote's funding rate is at most
\* the request's max_funding_rate; this holds for the HTTP handler and for
\* the demo market maker.
\* ------------------------------------------------------------------------
C22_QuoteAdmission ==
  [][\A rid \in 1..(MaxRequests + 1) :
       \A i \in 1..Len(AddedQuotes(rid)) :
         /\ rid \in DOMAIN requests
         /\ requests[rid].expires_at > now
         /\ AddedQuotes(rid)[i].funding_rate
              <= requests[rid].max_funding_rate]_vars

\* an accept_quote call that has returned Ok for a request
Accepted(a, rid) ==
  \E t \in Threads :
    a[t].pc = "done" /\ a[t].result = "ok" /\ a[t].request_id = rid

Preceded(i, types, position_id) ==
  \E j \in 1..(i - 1) :
    events[j].type \in types /\ events[j].id = position_id

\* ------------------------------------------------------------------------
\* C24  Per-position event ordering: on the broadcast channel the
\* QuoteAccepted of a position precedes its PositionOpened, and its
\* PositionOpened precedes every Liquidation and PositionClosed event of
\* that position, under any interleaving of accept_quote with the
\* liquidation loop and close_position.
\* ------------------------------------------------------------------------
C24_EventOrder ==
  \A i \in 1..Len(events) :
    /\ events[i].type = "position_opened"
         => Preceded(i, {"quote_accepted"}, events[i].id)
    /\ events[i].type \in {"liquidation", "position_closed"}
         => Preceded(i, {"position_opened"}, events[i].id)

\* how many requests of an ip check() allowed at the instants from..to
ServedIn(ip, from, to) ==
  SumSeq([k \in 1..(to - from + 1) |-> served[ip][from + k - 1]])

\* ------------------------------------------------------------------------
\* C25  Rate limiting is a sliding window per client IP: in every interval
\* of window_duration, at most max_requests requests of one IP are allowed;
\* a request beyond that is rejected with remaining = 0; the requests of
\* other IPs are unaffected.
\* ------------------------------------------------------------------------
C25_SlidingWindow ==
  /\ \A ip \in ClientIps :
       \A from \in 0..MaxTime :
         LET to == Min(from + window_duration - 1, MaxTime)
         IN ServedIn(ip, from, to) <= max_requests
  /\ (last_check.ip # "" /\ ~last_check.allowed) => last_check.remaining = 0

\* ------------------------------------------------------------------------
\* C26  Every state-mutating endpoint requires an API key that resolves to
\* an existing agent: a request with no key, or with a key that resolves
\* to no agent, is rejected and mutates no state.  Stated for
\* POST /trade/request: a step that stores a request is one whose key
\* resolved to an agent.
\* ------------------------------------------------------------------------
C26_AuthRequired ==
  [][<<requests, quotes, events>>' # <<requests, quotes, events>>
       => http'.agent # None]_vars

\* ------------------------------------------------------------------------
\* C27  An agent's identity and credential are immutable after
\* registration: no later operation replaces the stored record of a
\* registered agent id, in memory or in the database, or makes another
\* API key resolve to that agent.
\* ------------------------------------------------------------------------
C27_AgentImmutable ==
  [][/\ \A id \in DOMAIN agents :
          id \in DOMAIN agents' /\ agents'[id] = agents[id]
     /\ \A id \in DOMAIN db_agents :
          id \in DOMAIN db_agents' /\ db_agents'[id] = db_agents[id]
     /\ \A k \in DOMAIN api_keys' :
          api_keys'[k] \in DOMAIN agents
            => (k \in DOMAIN api_keys /\ api_keys[k] = api_keys'[k])]_vars

RatEq(a, b) == a.num * b.den = b.num * a.den

\* ------------------------------------------------------------------------
\* C28  ApplyFill entry-price rule: a fill that adds to the position, or
\* opens one from flat, sets entry to (|old|*entry + |delta|*fill_price) /
\* |new|; a fill that reduces the position without changing its sign
\* leaves entry unchanged; a fill that flips the sign sets entry to the
\* fill price; a fill that brings the size to zero zeroes entry.
\* ------------------------------------------------------------------------
C28_EntryPriceRule ==
  [][risk'.fills # risk.fills =>
       LET old == risk.position.size
           new == risk'.position.size
           delta == last_risk'.amount
           fill_price == last_risk'.price
           entry == risk.position.entry_price
           entry2 == risk'.position.entry_price
       IN /\ new = old + delta
          /\ new = 0 => RatEq(entry2, Rat(0, 1))
          /\ (new # 0 /\ (old = 0 \/ signum(delta) = signum(old)))
               => RatEq(RatMul(entry2, Rat(Abs(new), 1)),
                        RatAdd(RatMul(Rat(Abs(old), 1), entry),
                               Rat(Abs(delta) * fill_price, 1)))
          /\ (new # 0 /\ signum(new) = signum(old)
                      /\ signum(delta) # signum(old))
               => RatEq(entry2, entry)
          /\ (new # 0 /\ old # 0 /\ signum(new) # signum(old))
               => RatEq(entry2, Rat(fill_price, 1))]_vars

\* ------------------------------------------------------------------------
\* C29  After any sequence of deposits, withdrawals and fills the balance
\* is at least the margin locked in the positions; a withdrawal that would
\* break this, or that exceeds the balance, fails and leaves the balance
\* unchanged.
\* ------------------------------------------------------------------------
C29_CollateralCoversMargin ==
  [][/\ RatLessEq(risk'.position.margin, Rat(risk'.balance, 1))
     /\ (risk'.transfers # risk.transfers /\ last_risk'.op = "withdraw"
          /\ (risk.balance < last_risk'.amount
              \/ RatLess(Rat(risk.balance - last_risk'.amount, 1),
                         risk.position.margin)))
          => (last_risk'.result # "ok" /\ risk'.balance = risk.balance)]_vars

\* the write appended by this step was already applied before
Replayed ==
  /\ Len(writes') = Len(writes) + 1
  /\ \E i \in 1..Len(writes) : writes[i].write = writes'[Len(writes')].write

\* ------------------------------------------------------------------------
\* C30  Every durable-store write (save_agent, save_position,
\* close_position, save_funding_payment) is idempotent under replay:
\* applying a write that was applied before succeeds and leaves the store
\* as it was, also when other writes happened in between.
\* ------------------------------------------------------------------------
C30_ReplayIdempotent ==
  [][Replayed => (writes'[Len(writes')].result = "Ok" /\ store' = store)]_vars

\* ------------------------------------------------------------------------
\* C31  While an agent's circuit breaker is active, every new-order risk
\* check for that agent returns CircuitBreakerTriggered, whatever the
\* order's leverage, size and available margin.
\* ------------------------------------------------------------------------
C31_BreakerFailsFast ==
  (order_check.op = "check" /\ order_check.breaker_active)
    => order_check.result = "CircuitBreakerTriggered"

\* ------------------------------------------------------------------------
\* C32  Circuit-breaker lifecycle: inactive until triggered; after a
\* trigger active until reset is called or the clock passes cooldown_until;
\* from then on inactive until the next trigger.
\* ------------------------------------------------------------------------
C32_BreakerLifecycle ==
  [][/\ (now' = now /\ order_check'.op = "trigger")
          => breaker_is_active(breaker', now')
     /\ (now' = now /\ order_check'.op = "reset")
          => ~breaker_is_active(breaker', now')
     /\ (breaker' = breaker /\ breaker_is_active(breaker, now))
          => (breaker_is_active(breaker', now') <=> now' <= breaker.cooldown_until[1])
     /\ (breaker' = breaker /\ ~breaker_is_active(breaker, now))
          => ~breaker_is_active(breaker', now')]_vars

\* the breaker was triggered, nobody reset it, and it cooled down
C32_Witness ==
  /\ breaker.triggered
  /\ now > breaker.cooldown_until[1]
  /\ ~breaker_is_active(breaker, now)

\* the five rejections of the pre-trade check, in the order of the checks
FirstFailing(c) ==
  IF c.leverage > RiskParams_default.max_leverage THEN "ExceedsMaxLeverage"
  ELSE IF c.size_usd > RiskParams_default.max_position_size_usd
  THEN "ExceedsMaxPositionSize"
  ELSE IF c.current_positions >= RiskParams_default.max_positions
  THEN "ExceedsMaxPositions"
  ELSE IF 0 - c.daily_pnl > RiskParams_default.max_daily_loss_usd
  THEN "ExceedsDailyLossLimit"
  ELSE IF (c.leverage > 0 /\ c.size_usd > c.available_margin * c.leverage)
          \/ (c.leverage = 0 /\ c.size_usd > 0)
  THEN "InsufficientMargin"
  ELSE "Allowed"

\* ------------------------------------------------------------------------
\* C35  Pre-trade check: check_order_risk returns Allowed if and only if
\* none of leverage > max_leverage, size > max_position_size_usd, current
\* positions >= max_positions, daily loss > max_daily_loss_usd, required
\* margin (size / leverage) > available margin holds; otherwise it returns
\* the rejection of the first failing check in that order.
\* ------------------------------------------------------------------------
C35_PreTradeCheck ==
  order_check.op = "check" => order_check.result = FirstFailing(order_check)

\* an order at the position limit that also exceeds the daily loss and the
\* margin is rejected for the position count, the first of the three
C35_Witness ==
  /\ order_check.op = "check"
  /\ order_check.result = "ExceedsMaxPositions"
  /\ order_check.daily_pnl < 0
  /\ order_check.size_usd > order_check.available_margin * order_check.leverage

\* ------------------------------------------------------------------------
\* C33  Each non-dry-run funding settlement applies the payment to both
\* sides and records it: for every payment recorded by a settlement the
\* trader's collateral of that position goes down and the market maker's
\* goes up by payment_amount (the other way for a negative amount).
\* ------------------------------------------------------------------------
C33_FundingApplied ==
  [][settlements' # settlements =>
       \A i \in (Len(funding_payments) + 1)..Len(funding_payments') :
         LET pay == funding_payments'[i]
             before == positions[pay.position_id]
             after == positions'[pay.position_id]
         IN /\ RatEq(Rat(after.trader_collateral, 1),
                     RatAdd(Rat(before.trader_collateral, 1),
                            RatNeg(pay.payment_amount)))
            /\ RatEq(Rat(after.mm_collateral, 1),
                     RatAdd(Rat(before.mm_collateral, 1),
                            pay.payment_amount))]_vars

\* ------------------------------------------------------------------------
\* C34  Every request and quote whose expiry time has passed is eventually
\* removed from the in-memory negotiation ledger, lazily on access or by a
\* periodic sweeper.
\* ------------------------------------------------------------------------
C34_ExpiredSwept ==
  \A rid \in 1..MaxRequests :
    /\ (rid \in DOMAIN requests /\ requests[rid].expires_at <= now)
         ~> (rid \notin DOMAIN requests)
    /\ (rid \in DOMAIN quotes
        /\ \E i \in 1..Len(quotes[rid]) : quotes[rid][i].valid_until <= now)
         ~> (rid \notin DOMAIN quotes
             \/ \A i \in 1..Len(quotes[rid]) :
                  quotes[rid][i].valid_until > now)

\* equal fractions; fractions over the same denominator are compared by
\* their numerators
RatSame(a, b) ==
  IF a.den = b.den THEN a.num = b.num ELSE a.num * b.den = b.num * a.den

\* size_usdc * leverage * (price - entry) / entry
LongPnl(position, price) ==
  Rat(position.size_usdc * position.leverage
        * (price - position.entry_price),
      position.entry_price)

\* the close_position call of this step closed the position pid
ClosedNow(pid) ==
  /\ last_close'.position_id = pid
  /\ pid \in DOMAIN positions
  /\ positions[pid].status = "Active"
  /\ positions'[pid].status = "Closed"

\* ------------------------------------------------------------------------
\* C36  PnL is side-symmetric and zero-sum: at any price a Long position's
\* trader PnL is size_usdc * leverage * (price - entry) / entry and a Short
\* position's is its negation; the PnL realised by close_position equals
\* margin::unrealized_pnl at the same price, and pnl_trader + pnl_mm = 0.
\* ------------------------------------------------------------------------
C36_PnlSymmetric ==
  [][\A pid \in DOMAIN positions :
       LET position == positions[pid]
           long == [position EXCEPT !.side = "Long"]
           short == [position EXCEPT !.side = "Short"]
       IN /\ \A price \in FeedPrices \cup {position.entry_price} :
               /\ RatSame(unrealized_pnl(long, price), LongPnl(position, price))
               /\ RatSame(unrealized_pnl(short, price),
                          RatNeg(LongPnl(position, price)))
          /\ ClosedNow(pid) =>
               LET closed == events'[Len(events')]
                   price == IF position.market \in DOMAIN prices
                            THEN prices[position.market]
                            ELSE position.entry_price
               IN /\ closed.type = "position_closed" /\ closed.id = pid
                  /\ RatSame(closed.pnl_trader,
                             unrealized_pnl(position, price))
                  /\ RatSame(closed.pnl_mm, RatNeg(closed.pnl_trader))
                  /\ pid \in DOMAIN db_positions' =>
                       /\ db_positions'[pid].pnl_trader
                            = Some(closed.pnl_trader)
                       /\ db_positions'[pid].pnl_mm = Some(closed.pnl_mm)]_vars

\* a Short position was closed away from its entry price
C36_Witness ==
  /\ last_close.result = "ok"
  /\ last_close.position_id \in DOMAIN positions
  /\ positions[last_close.position_id].side = "Short"
  /\ positions[last_close.position_id].status = "Closed"
  /\ \E i \in 1..Len(events) :
       /\ events[i].type = "position_closed"
       /\ events[i].id = last_close.position_id
       /\ events[i].pnl_trader.num # 0

\* ------------------------------------------------------------------------
\* C37  The liquidation price reported for a position is the mark price at
\* which its equity equals its maintenance margin: a Long position
\* satisfies should_liquidate exactly at prices below
\* liquidation_price(position), a Short position exactly at prices above.
\* ------------------------------------------------------------------------
C37_LiquidationPrice ==
  \A pid \in DOMAIN positions : \A price \in FeedPrices :
    LET position == positions[pid]
        liq_price == liquidation_price(position)
    IN should_liquidate(position, price)
         <=> IF position.side = "Long"
             THEN RatLess(Rat(price, 1), liq_price)
             ELSE RatLess(liq_price, Rat(price, 1))

\* ------------------------------------------------------------------------
\* C38  The book is never crossed: after any sequence of placements (GTC,
\* IOC, FOK, PostOnly, market) and cancellations, whenever both sides are
\* non-empty the best bid is strictly below the best ask, both as the
\* levels stand and as best_bid and best_ask report them.
\* ------------------------------------------------------------------------
C38_NeverCrossed ==
  /\ (DOMAIN book.bids # {} /\ DOMAIN book.asks # {})
       => MaxOf(DOMAIN book.bids) < MinOf(DOMAIN book.asks)
  /\ (book.best_bid # None /\ book.best_ask # None)
       => book.best_bid[1] < book.best_ask[1]

\* a limit order took the best ask, rested its remainder as the best bid
\* and left a higher ask standing
C38_Witness ==
  /\ last.op = "place"
  /\ last.trades # <<>>
  /\ last.order[1].side = "Buy"
  /\ last.order[1].id \in DOMAIN book.orders
  /\ DOMAIN book.asks # {}
  /\ book.best_bid = last.order[1].price

\* the trader is in profit at this price
InProfit(position, price) ==
  IF position.side = 0 THEN price > position.entry_price
  ELSE price < position.entry_price

\* ------------------------------------------------------------------------
\* C39  Escrow PnL direction: at close a Long trader (side 0) is paid at
\* least their collateral if the exit price is at or above the entry price
\* and at most their collateral if it is below, symmetrically for a Short
\* trader; a position whose trader is in profit at the current price cannot
\* be liquidated.
\* ------------------------------------------------------------------------
C39_PnlDirection ==
  [][/\ (escrow.status = "Active" /\ escrow'.status = "Closed") =>
          LET up == escrow_out'.price >= escrow.entry_price
              down == escrow_out'.price <= escrow.entry_price
              gains == IF escrow.side = 0 THEN up ELSE down
              strict_loss == IF escrow.side = 0 THEN ~up ELSE ~down
          IN /\ gains
                  => escrow_out'.trader_payout >= escrow.trader_collateral
             /\ strict_loss
                  => escrow_out'.trader_payout <= escrow.trader_collateral
     /\ (escrow.status = "Active" /\ escrow'.status = "Liquidated")
          => ~InProfit(escrow, escrow_out'.price)]_vars

\* ------------------------------------------------------------------------
\* C40  Escrow funding conserves locked collateral: every settle_funding
\* call on an Active position leaves trader_collateral + mm_collateral
\* unchanged, also when the funding amount exceeds the payer's collateral,
\* so the sum paid out at close or liquidation never exceeds what was
\* locked for the position.
\* ------------------------------------------------------------------------
C40_FundingConserves ==
  [][/\ escrow'.trader_collateral + escrow'.mm_collateral = escrow'.locked
     /\ escrow_out'.trader_payout + escrow_out'.mm_payout
          + escrow_out'.liquidation_reward <= escrow'.locked]_vars

====
